---- MODULE Spec2Model ----
(***************************************************************************)
(* ComputationNetwork evaluation and validation                            *)
(* (MachineLearning/CNTKComputationNetworkLib/                             *)
(*  ComputationNetworkEvaluation.cpp).                                     *)
(*                                                                         *)
(* The network is a graph of nodes 1..N.  Each public entry point of       *)
(* ComputationNetwork (BuildAndValidateSubNetwork, Evaluate,               *)
(* ComputeGradient) is one action that runs the whole method.  The hooks   *)
(* a method invokes on nodes are appended to `trace', the record of the    *)
(* call in progress, so that orderings inside one call are visible to      *)
(* state predicates.  `pre' is the network state at the entry of the last  *)
(* call (a history variable).                                              *)
(***************************************************************************)
EXTENDS Integers, Sequences, FiniteSets, TLC

VARIABLES
    net,                 \* index in Networks of the graph under evaluation
    m_cacheEvalOrders,   \* the cached evaluation order (all nodes of the network)
    m_built,             \* set of roots BuildAndValidateSubNetwork() was called on
    m_recurrentInfo,     \* sequence of RecurrentInfo records
    m_pMBLayout,         \* the network's MBLayout: [T |-> time steps, S |-> sequences]
    node,                \* per-node state: timestamps, validation state, dimensions
    s_timeStampCounter,  \* global counter behind UpdateEvalTimeStamp()
    validated,           \* roots for which a ValidateSubNetwork() returned without error
    trace,               \* hooks invoked by the last call, in order
    lastCall,            \* the last call: method, arguments, error kind ("" = returned)
    pre,                 \* network state at entry of the last call
    nCalls               \* number of calls made so far

vars == <<net, m_cacheEvalOrders, m_built, m_recurrentInfo, m_pMBLayout, node,
          s_timeStampCounter, validated, trace, lastCall, pre, nCalls>>

----------------------------------------------------------------------------
(* Bounds of the model *)

\* number of calls of the public entry points in one behaviour
MaxCalls == 3

\* largest number of time steps a minibatch layout takes
MaxT == 2

----------------------------------------------------------------------------
(* Generic helpers *)

Range(s) == {s[i] : i \in 1..Len(s)}

Reverse(s) == [i \in 1..Len(s) |-> s[Len(s) + 1 - i]]

\* position of x in the sequence s (0 when absent)
IndexOf(s, x) == IF x \in Range(s) THEN CHOOSE i \in 1..Len(s) : s[i] = x ELSE 0

\* F applied to the value of v: v is evaluated once, before F runs, as a
\* statement's result is available to the statements that follow it
Then(v, F(_)) == CHOOSE y \in {F(x) : x \in {v}} : TRUE

RECURSIVE SeqOfSet(_)
SeqOfSet(S) == IF S = {} THEN <<>>
               ELSE LET m == CHOOSE x \in S : \A y \in S : x <= y
                    IN <<m>> \o SeqOfSet(S \ {m})

----------------------------------------------------------------------------
(* The networks.  A network gives, per node: the operation name, the      *)
(* ordered children, the dimensions set at construction (leaves), and     *)
(* IsParameterUpdateRequired().  `multiSeq' are the nodes for which       *)
(* IsNodeReqMultiSeqHandling() holds.  `roots' are the nodes callers pass *)
(* as rootNode; `criterion' is the training criterion, the root callers   *)
(* pass to ComputeGradient.  `features', `criteria', `outputs' and        *)
(* `evalNodes' are FeatureNodes(), FinalCriterionNodes(), OutputNodes()   *)
(* and EvaluationNodes(), in order.  `claimsLoop' are the nodes whose     *)
(* IsPartOfLoop() is true when the network is handed over.                *)

\* S1: x, W, Times(W, x), Sigmoid
FeedForward ==
    [op       |-> <<"InputValue", "LearnableParameter", "Times", "Sigmoid">>,
     children |-> << <<>>, <<>>, <<2, 1>>, <<3>> >>,
     rows     |-> <<3, 5, 0, 0>>,
     cols     |-> <<2, 3, 0, 0>>,
     update   |-> <<FALSE, TRUE, FALSE, FALSE>>,
     multiSeq |-> {},
     roots    |-> {3, 4},
     criterion |-> 4,
     features |-> <<1>>, criteria |-> <<4>>, outputs |-> <<3>>, evalNodes |-> <<>>,
     claimsLoop |-> {}]

\* S2: a PastValue loop {3, 4} fed by the non-leaf node 2
PastLoop ==
    [op       |-> <<"InputValue", "Sigmoid", "PastValue", "Plus", "Sigmoid">>,
     children |-> << <<>>, <<1>>, <<4>>, <<2, 3>>, <<4>> >>,
     rows     |-> <<2, 0, 0, 0, 0>>,
     cols     |-> <<2, 0, 0, 0, 0>>,
     update   |-> <<FALSE, FALSE, FALSE, FALSE, FALSE>>,
     multiSeq |-> {5},
     roots    |-> {2, 5},
     criterion |-> 5,
     features |-> <<1>>, criteria |-> <<5>>, outputs |-> <<>>, evalNodes |-> <<2>>,
     claimsLoop |-> {}]

\* S3: a FutureValue loop {3, 4, 5} of three members fed by leaves
FutureLoop ==
    [op       |-> <<"InputValue", "LearnableParameter", "FutureValue", "Times", "Plus">>,
     children |-> << <<>>, <<>>, <<5>>, <<2, 3>>, <<1, 4>> >>,
     rows     |-> <<2, 2, 0, 0, 0>>,
     cols     |-> <<2, 2, 0, 0, 0>>,
     update   |-> <<FALSE, TRUE, FALSE, FALSE, FALSE>>,
     multiSeq |-> {4},
     roots    |-> {5},
     criterion |-> 5,
     features |-> <<1>>, criteria |-> <<>>, outputs |-> <<5>>, evalNodes |-> <<>>,
     claimsLoop |-> {}]

\* a user error: the input has no rows
ZeroRows ==
    [op       |-> <<"InputValue", "Sigmoid">>,
     children |-> << <<>>, <<1>> >>,
     rows     |-> <<0, 0>>,
     cols     |-> <<2, 0>>,
     update   |-> <<FALSE, FALSE>>,
     multiSeq |-> {},
     roots    |-> {2},
     criterion |-> 2,
     features |-> <<1>>, criteria |-> <<2>>, outputs |-> <<2>>, evalNodes |-> <<>>,
     claimsLoop |-> {}]

\* a parameter without columns, and no input
ZeroCols ==
    [op       |-> <<"LearnableParameter", "Sigmoid">>,
     children |-> << <<>>, <<1>> >>,
     rows     |-> <<3, 0>>,
     cols     |-> <<0, 0>>,
     update   |-> <<TRUE, FALSE>>,
     multiSeq |-> {},
     roots    |-> {2},
     criterion |-> 2,
     features |-> <<>>, criteria |-> <<>>, outputs |-> <<2>>, evalNodes |-> <<>>,
     claimsLoop |-> {}]

\* a loop that no leaf feeds
LeaflessLoop ==
    [op       |-> <<"PastValue", "Sigmoid">>,
     children |-> << <<2>>, <<1>> >>,
     rows     |-> <<0, 0>>,
     cols     |-> <<0, 0>>,
     update   |-> <<FALSE, FALSE>>,
     multiSeq |-> {},
     roots    |-> {2},
     criterion |-> 2,
     features |-> <<>>, criteria |-> <<2>>, outputs |-> <<2>>, evalNodes |-> <<>>,
     claimsLoop |-> {}]

\* a loop {2, 3, 4} with a member that reduces its input to a scalar
\* without MBLayout
SumInLoop ==
    [op       |-> <<"InputValue", "PastValue", "SumElements", "Plus">>,
     children |-> << <<>>, <<4>>, <<2>>, <<1, 3>> >>,
     rows     |-> <<2, 0, 0, 0>>,
     cols     |-> <<2, 0, 0, 0>>,
     update   |-> <<FALSE, FALSE, FALSE, FALSE>>,
     multiSeq |-> {},
     roots    |-> {4},
     criterion |-> 4,
     features |-> <<1>>, criteria |-> <<4>>, outputs |-> <<4>>, evalNodes |-> <<>>,
     claimsLoop |-> {}]

\* a feed-forward network whose nodes 2 and 3 still report IsPartOfLoop()
\* from a loop they were cut out of
StaleLoopFlag ==
    [op       |-> <<"InputValue", "Sigmoid", "Sigmoid">>,
     children |-> << <<>>, <<1>>, <<2>> >>,
     rows     |-> <<2, 0, 0>>,
     cols     |-> <<2, 0, 0>>,
     update   |-> <<FALSE, FALSE, FALSE>>,
     multiSeq |-> {2},
     roots    |-> {3},
     criterion |-> 3,
     features |-> <<1>>, criteria |-> <<3>>, outputs |-> <<3>>, evalNodes |-> <<>>,
     claimsLoop |-> {2, 3}]

\* two inputs, one of them without columns before a minibatch is read
TwoInputs ==
    [op       |-> <<"InputValue", "InputValue", "Plus">>,
     children |-> << <<>>, <<>>, <<1, 2>> >>,
     rows     |-> <<2, 2, 0>>,
     cols     |-> <<0, 3, 0>>,
     update   |-> <<FALSE, FALSE, FALSE>>,
     multiSeq |-> {},
     roots    |-> {3},
     criterion |-> 3,
     features |-> <<1, 2>>, criteria |-> <<3>>, outputs |-> <<3>>, evalNodes |-> <<>>,
     claimsLoop |-> {}]

Networks == <<FeedForward, PastLoop, FutureLoop, ZeroRows,
              ZeroCols, LeaflessLoop, SumInLoop, StaleLoopFlag, TwoInputs>>

G == Networks[net]

NodesOf(g) == 1..Len(g.op)

Nodes == NodesOf(G)

Children(g, n) == g.children[n]

IsLeaf(g, n) == Children(g, n) = <<>>

IsDelay(g, n) == g.op[n] \in {"PastValue", "FutureValue"}

\* nodes reachable from the nodes of S through k or fewer Children() edges
RECURSIVE ReachK(_, _, _)
ReachK(g, S, k) ==
    IF k = 0 THEN S
    ELSE ReachK(g, S \cup UNION {Range(Children(g, n)) : n \in S}, k - 1)

\* the subnetwork of root: root and all its transitive dependencies
SubNetwork(g, root) == ReachK(g, {root}, Len(g.op))

\* nodes reachable from n through one or more Children() edges
Below(g, n) == ReachK(g, Range(Children(g, n)), Len(g.op))

----------------------------------------------------------------------------
(* GraphTraversal *)

\* the orders of all nodes with children before parents, the edges from a
\* PastValue/FutureValue node to its child being ignored
EvalOrders(g) ==
    {o \in [NodesOf(g) -> NodesOf(g)] :
        /\ \A i, j \in NodesOf(g) : i # j => o[i] # o[j]
        /\ \A n \in NodesOf(g) :
              IsDelay(g, n) \/
              \A c \in Range(Children(g, n)) : IndexOf(o, c) < IndexOf(o, n)}

InSubNetwork(g, root, n) == n \in SubNetwork(g, root)

\* GetEvalOrder(rootNode): the cached order, of the nodes root depends on
GetEvalOrder(root) ==
    SelectSeq(m_cacheEvalOrders, LAMBDA n : InSubNetwork(G, root, n))

\* GetGradientCalcOrder(rootNode): the same nodes in reverse order
GetGradientCalcOrder(root) == Reverse(GetEvalOrder(root))

----------------------------------------------------------------------------
(* Trace of a call *)

\* FrameRange(pMBLayout): all frames of the minibatch at once
AllFrames == 0 - 1

\* one hook invoked on node n; t is a time step, or AllFrames
Ev(h, n, t) == [h |-> h, n |-> n, t |-> t]

----------------------------------------------------------------------------
(* LoopDetector *)

\* the strongly connected component of n, delay edges included
SCC(g, n) == {m \in Below(g, n) : n \in Below(g, m)}

\* the nontrivial components among the nodes root depends on
LoopsOf(g, root) == {SCC(g, n) : n \in {m \in SubNetwork(g, root) : m \in Below(g, m)}}

InSet(S, n) == n \in S

NewRecurrentInfo(g, order, S) ==
    [m_recurrentNodes           |-> SeqOfSet(S),
     m_recurrentNodesForForward |-> SelectSeq(order, LAMBDA n : InSet(S, n)),
     m_steppingDirection        |-> IF \E n \in S : g.op[n] = "PastValue" THEN 1 ELSE 0 - 1,
     m_completedEvaluate        |-> FALSE,
     m_completedGradient        |-> FALSE]

\* the loops of root's subnetwork that m_recurrentInfo does not hold yet,
\* in the order in which the evaluation order meets them
RECURSIVE NewLoops(_, _, _, _)
NewLoops(g, order, known, todo) ==
    IF todo = {} THEN <<>>
    ELSE Then(CHOOSE S \in todo :
                \A S2 \in todo :
                  \E n \in S : \A n2 \in S2 : IndexOf(order, n) <= IndexOf(order, n2),
              LAMBDA first :
                (IF first \in known THEN <<>> ELSE <<NewRecurrentInfo(g, order, first)>>)
                \o Then(todo \ {first}, LAMBDA rest : NewLoops(g, order, known, rest)))

MixedDirection(g, S) ==
    /\ \E n \in S : g.op[n] = "PastValue"
    /\ \E n \in S : g.op[n] = "FutureValue"

\* FormRecurrentLoops(rootNode) on the network state ns
FormRecurrentLoops(ns, root) ==
    Then(LoopsOf(G, root), LAMBDA loops :
    Then({Range(ns.rec[i].m_recurrentNodes) : i \in 1..Len(ns.rec)}, LAMBDA known :
      IF \E S \in loops : MixedDirection(G, S)
      THEN [ns EXCEPT !.err = "MixedRecurrenceDirection"]
      ELSE [ns EXCEPT
              !.rec = @ \o NewLoops(G, m_cacheEvalOrders, known, loops),
              !.node = [n \in Nodes |->
                         IF \E S \in loops : n \in S
                         THEN [@[n] EXCEPT !.isPartOfLoop = TRUE] ELSE @[n]]]))

\* FindInRecurrentLoops(node): index of the first RecurrentInfo whose
\* m_recurrentNodes holds n, 0 for nullptr
FindInRecurrentLoops(rec, n) ==
    IF \E i \in 1..Len(rec) : n \in Range(rec[i].m_recurrentNodes)
    THEN CHOOSE i \in 1..Len(rec) :
           /\ n \in Range(rec[i].m_recurrentNodes)
           /\ \A j \in 1..(i - 1) : n \notin Range(rec[j].m_recurrentNodes)
    ELSE 0

----------------------------------------------------------------------------
(* Network state handed through the methods.  A method is an operator     *)
(* from network state to network state; `err' names the error that ended  *)
(* it ("" while it runs and when it returns normally) and `trace' holds   *)
(* the hooks it has invoked.                                               *)

NetState ==
    [rec       |-> m_recurrentInfo,
     node      |-> node,
     layout    |-> m_pMBLayout,
     clock     |-> s_timeStampCounter,
     built     |-> m_built,
     validated |-> validated,
     err       |-> "",
     trace     |-> <<>>]

Log(ns, h, n, t) == [ns EXCEPT !.trace = Append(@, Ev(h, n, t))]

Fail(ns, kind) == [ns EXCEPT !.err = kind]

\* MBLayout::GetNumCols()
LayoutCols(layout) == layout.T * layout.S

----------------------------------------------------------------------------
(* NodeContract: what Validate() of a node does to the node.  A leaf keeps *)
(* what it was constructed with; SumElements yields a 1x1 value without    *)
(* MBLayout; any other node takes the dimensions of its first child that   *)
(* has any, and the MBLayout of its children.                              *)

HasDims(nd) == nd.rows # 0 \/ nd.cols # 0

NodeValidate(nodes, n) ==
    IF IsLeaf(G, n) THEN nodes[n]
    ELSE IF G.op[n] = "SumElements"
    THEN [nodes[n] EXCEPT !.rows = 1, !.cols = 1, !.layout = FALSE]
    ELSE LET ch   == Children(G, n)
             with == {i \in 1..Len(ch) : HasDims(nodes[ch[i]])}
             src  == IF with = {} THEN n
                     ELSE ch[CHOOSE i \in with : \A j \in with : i <= j]
         IN [nodes[n] EXCEPT
               !.rows = nodes[src].rows,
               !.cols = nodes[src].cols,
               !.layout = IF \E i \in 1..Len(ch) : nodes[ch[i]].layout
                          THEN TRUE ELSE @]

\* GetDims() of the children, in order
ChildDims(nodes, n) ==
    [i \in 1..Len(Children(G, n)) |->
        <<nodes[Children(G, n)[i]].rows, nodes[Children(G, n)[i]].cols>>]

----------------------------------------------------------------------------
(* Validator *)

\* a propagation that stops at the delay nodes
PropagateNeedsGradientPastDelay(nodes, n, own) ==
    own \/ (~IsDelay(G, n) /\ \E c \in Range(Children(G, n)) : nodes[c].m_needsGradient)

\* m_needsGradient of a node after it took over the flags of its children
PropagateNeedsGradient(nodes, n, own) ==
    own \/ \E c \in Range(Children(G, n)) : nodes[c].m_needsGradient

\* a node that counts as valid whatever Validate() made of it
ValidIgnoringChange(allChildrenVisited, unchanged, isLeaf) ==
    allChildrenVisited \/ isLeaf

\* the node needs no redo (line 484)
Valid(allChildrenVisited, unchanged, isLeaf) ==
    (allChildrenVisited /\ unchanged) \/ isLeaf

\* the body of the loop of ValidateNodes() for one node; vs carries the
\* network state and the count `todo'
ValidateOneNode(vs, n, isFinal) ==
    LET nodes    == vs.ns.node
        ch       == Range(Children(G, n))
        isLeaf   == IsLeaf(G, n)
        hasVisitedChild    == \E c \in ch : nodes[c].m_visited
        allChildrenVisited == \A c \in ch : nodes[c].m_visited
    IN IF ~(hasVisitedChild \/ isLeaf)
       THEN [vs EXCEPT !.todo = @ + 1]
       ELSE
         Then([NodeValidate(nodes, n) EXCEPT
                 !.m_visited = TRUE,
                 !.m_needsGradient = PropagateNeedsGradient(nodes, n, @)],
              LAMBDA done :
         LET nodes2 == [nodes EXCEPT ![n] = done]
             unchanged ==
                 /\ nodes[n].layout = done.layout
                 /\ <<nodes[n].rows, nodes[n].cols>> = <<done.rows, done.cols>>
                 /\ ChildDims(nodes, n) = ChildDims(nodes2, n)
                 /\ nodes[n].m_needsGradient = done.m_needsGradient
             valid == Valid(allChildrenVisited, unchanged, isLeaf)
             ns2 == Log([vs.ns EXCEPT !.node = nodes2],
                        IF isFinal THEN "Validate(true)" ELSE "Validate(false)",
                        n, AllFrames)
         IN IF isFinal /\ ~unchanged
            THEN [vs EXCEPT !.ns = Fail(ns2, "NonStableValidation")]
            ELSE IF isFinal /\ ~allChildrenVisited
            THEN [vs EXCEPT !.ns = Fail(ns2, "FinalWithUnvisitedChildren")]
            ELSE [vs EXCEPT !.ns = ns2, !.todo = IF valid THEN @ ELSE @ + 1])

\* ValidateNodes(nodes, isFinalValidationPass, todo) from position i on
RECURSIVE ValidateNodesFrom(_, _, _, _)
ValidateNodesFrom(vs, order, i, isFinal) ==
    IF i > Len(order) \/ vs.ns.err # "" THEN vs
    ELSE Then(ValidateOneNode(vs, order[i], isFinal),
              LAMBDA next : ValidateNodesFrom(next, order, i + 1, isFinal))

\* ValidateNodes(nodes, isFinalValidationPass, todo); the return of a pass
\* is an event of the trace that carries todo in the place of the frame
ValidateNodes(ns, order, isFinal) ==
    Then([ns |-> ns, todo |-> 0], LAMBDA entry :
    Then(ValidateNodesFrom(entry, order, 1, isFinal), LAMBDA vs :
      IF vs.ns.err # "" THEN vs
      ELSE [vs EXCEPT !.ns = Log(@, IF isFinal THEN "ValidateNodes(true)"
                                               ELSE "ValidateNodes(false)",
                                 0, vs.todo)]))

\* the InputValue nodes that root depends on
InputNodes(root) ==
    SelectSeq(GetEvalOrder(root), LAMBDA n : G.op[n] = "InputValue")

\* LinkToMBLayout(m_pMBLayout) on the inputs, with the dummy layout for a
\* network validated before a minibatch was read
RECURSIVE LinkInputs(_, _, _)
LinkInputs(ns, inputs, i) ==
    IF i > Len(inputs) THEN ns
    ELSE Then([ns EXCEPT !.node[inputs[i]].layout = TRUE,
                         !.layout = IF LayoutCols(@) = 0
                                    THEN [T |-> 1, S |-> ns.node[inputs[i]].cols]
                                    ELSE @],
              LAMBDA linked : LinkInputs(linked, inputs, i + 1))

\* one non-final pass, whatever it leaves to redo
ValidateOnePass(ns, order) == ValidateNodes(ns, order, FALSE).ns

\* the while loop of ValidateSubNetwork(): non-final passes until none is
\* left to redo.  A pass that leaves work to do and changes nothing is
\* followed by the same pass for ever: the call does not return.
RECURSIVE ValidatePasses(_, _)
ValidatePasses(ns, order) ==
    Then(ValidateNodes(ns, order, FALSE), LAMBDA vs :
      IF vs.ns.err # "" THEN vs.ns
      ELSE IF vs.todo = 0 THEN vs.ns
      ELSE IF vs.ns.node = ns.node THEN Fail(vs.ns, "DoesNotReturn")
      ELSE Then(vs.ns, LAMBDA next : ValidatePasses(next, order)))

\* the test of line 412 without the MB layout
ZeroDimensionWithoutLayout(nd) == nd.rows = 0 /\ nd.cols = 0

\* the test of line 412: the node has no elements
ZeroDimension(nd) == nd.rows = 0 /\ (nd.layout \/ nd.cols = 0)

\* m_visited and m_needsGradient as ValidateSubNetwork() sets them before
\* the passes
ResetVisited(ns, order) ==
    [ns EXCEPT !.node =
       [n \in Nodes |->
          IF n \in Range(order)
          THEN [@[n] EXCEPT !.m_visited = FALSE, !.m_needsGradient = G.update[n]]
          ELSE @[n]]]

ValidateSubNetwork(ns0, root) ==
    Then(GetEvalOrder(root), LAMBDA order :
    Then(Log(ns0, "ValidateSubNetwork", root, AllFrames), LAMBDA entered :
    Then(InputNodes(root), LAMBDA inputs :
    Then(LinkInputs(entered, inputs, 1), LAMBDA linked :
    Then(ResetVisited(linked, order), LAMBDA reset :
    Then(IF Len(order) > 0 THEN ValidatePasses(reset, order) ELSE reset, LAMBDA passed :
      IF passed.err # "" THEN passed
      ELSE Then(ValidateNodes(passed, order, TRUE), LAMBDA final :
             IF final.ns.err # "" THEN final.ns
             ELSE IF final.todo # 0 THEN Fail(final.ns, "FinalWithWorkLeft")
             ELSE IF \E n \in Range(order) : ZeroDimension(final.ns.node[n])
             THEN Fail(final.ns, "ZeroDimension")
             ELSE [final.ns EXCEPT !.validated = @ \cup {root}])))))))

\* a loop over the roots that goes through the build cache: a root in
\* m_built is skipped, any other is entered
RECURSIVE ValidateRootsIntoCache(_, _, _, _)
ValidateRootsIntoCache(ns, roots, i, allowFragment) ==
    IF i > Len(roots) \/ ns.err # "" THEN ns
    ELSE IF roots[i] \in ns.built
    THEN ValidateRootsIntoCache(ns, roots, i + 1, allowFragment)
    ELSE Then(ValidateSubNetwork([ns EXCEPT !.built = @ \cup {roots[i]}], roots[i]),
              LAMBDA next : ValidateRootsIntoCache(next, roots, i + 1, allowFragment))

\* the loop over one list of roots in ValidateNetwork()
RECURSIVE ValidateRoots(_, _, _, _)
ValidateRoots(ns, roots, i, allowFragment) ==
    IF i > Len(roots) \/ ns.err # "" THEN ns
    ELSE Then(IF allowFragment THEN ns
              ELSE FormRecurrentLoops(Log(ns, "FormRecurrentLoops", roots[i], AllFrames),
                                      roots[i]),
              LAMBDA formed :
                IF formed.err # "" THEN formed
                ELSE Then(ValidateSubNetwork(formed, roots[i]),
                          LAMBDA next : ValidateRoots(next, roots, i + 1, allowFragment)))

\* ValidateNetwork() that asks for feature nodes of a fragment as well
ValidateNetworkNeedsFeatures(ns, allowFragment, bAllowNoCriterion) ==
    IF Len(G.features) = 0 THEN Fail(ns, "MissingFeatures")
    ELSE
    Then(Log(ns, "AllocateAllEvalMatrices", 0, AllFrames), LAMBDA allocated :
    Then(IF Len(G.criteria) > 0 THEN ValidateRoots(allocated, G.criteria, 1, allowFragment)
         ELSE IF bAllowNoCriterion THEN allocated
         ELSE IF ~allowFragment THEN Fail(allocated, "MissingCriterion")
         ELSE allocated,
         LAMBDA criteria :
      IF criteria.err # "" THEN criteria
      ELSE
    Then(IF Len(G.outputs) > 0 THEN ValidateRoots(criteria, G.outputs, 1, allowFragment)
         ELSE IF ~allowFragment THEN Fail(criteria, "MissingOutput")
         ELSE criteria,
         LAMBDA outputs :
      IF outputs.err # "" THEN outputs
      ELSE IF Len(G.evalNodes) > 0
      THEN ValidateRoots(outputs, G.evalNodes, 1, allowFragment)
      ELSE outputs)))

\* ValidateNetwork(allowFragment, bAllowNoCriterion)
ValidateNetwork(ns, allowFragment, bAllowNoCriterion) ==
    IF Len(G.features) = 0 /\ ~allowFragment THEN Fail(ns, "MissingFeatures")
    ELSE
    Then(Log(ns, "AllocateAllEvalMatrices", 0, AllFrames), LAMBDA allocated :
    Then(IF Len(G.criteria) > 0 THEN ValidateRoots(allocated, G.criteria, 1, allowFragment)
         ELSE IF bAllowNoCriterion THEN allocated
         ELSE IF ~allowFragment THEN Fail(allocated, "MissingCriterion")
         ELSE allocated,
         LAMBDA criteria :
      IF criteria.err # "" THEN criteria
      ELSE
    Then(IF Len(G.outputs) > 0 THEN ValidateRoots(criteria, G.outputs, 1, allowFragment)
         ELSE IF ~allowFragment THEN Fail(criteria, "MissingOutput")
         ELSE criteria,
         LAMBDA outputs :
      IF outputs.err # "" THEN outputs
      ELSE IF Len(G.evalNodes) > 0
      THEN ValidateRoots(outputs, G.evalNodes, 1, allowFragment)
      ELSE outputs)))

----------------------------------------------------------------------------
(* NodeContract: timestamps and sizes *)

\* node->IsFuncValueOlderThanInputs(): some child carries a timestamp that
\* is not older than the node's own
NodeIsOlderThanInputs(nodes, n) ==
    \E c \in Range(Children(G, n)) : nodes[c].m_evalTimeStamp >= nodes[n].m_evalTimeStamp

\* node->UpdateEvalTimeStamp(): a fresh value of the global counter
UpdateEvalTimeStamp(ns0, n) ==
    Then(ns0, LAMBDA ns :
      Log([ns EXCEPT !.clock = @ + 1, !.node[n].m_evalTimeStamp = ns.clock + 1],
          "UpdateEvalTimeStamp", n, AllFrames))

\* node->UpdateFunctionMBSize(): a node with a layout takes its width
UpdateFunctionMBSize(ns0, n) ==
    Then(ns0, LAMBDA ns :
      Log(IF ns.node[n].layout
          THEN [ns EXCEPT !.node[n].cols = LayoutCols(ns.layout)]
          ELSE ns,
          "UpdateFunctionMBSize", n, AllFrames))

\* node->Validate(true) as Evaluate() calls it
ValidateFinal(ns0, n) ==
    Then(ns0, LAMBDA ns :
      Log([ns EXCEPT !.node[n] = NodeValidate(ns.node, n)], "Validate(true)", n, AllFrames))

RequiresPreCompute(g, n) == g.op[n] \in {"Mean", "InvStdDev"}

IsNodeReqMultiSeqHandling(g, n) == n \in g.multiSeq

\* FrameRangeIteration(pMBLayout, step): begin() .. end()
Frames(T, step) ==
    IF step > 0 THEN [i \in 1..T |-> i - 1] ELSE [i \in 1..T |-> T - i]

\* FrameRangeIteration(pMBLayout, step): rbegin() .. rend()
FramesReversed(T, step) == Reverse(Frames(T, step))

----------------------------------------------------------------------------
(* Evaluator *)

\* a stale-check that asks the delay nodes as well
AnyMemberOlderThanInputs(nodes, recurrentNodes) ==
    \E i \in 1..Len(recurrentNodes) : NodeIsOlderThanInputs(nodes, recurrentNodes[i])

\* IsFuncValueOlderThanInputs(recurrentNodes)
IsFuncValueOlderThanInputs(nodes, recurrentNodes) ==
    \E i \in 1..Len(recurrentNodes) :
        /\ NodeIsOlderThanInputs(nodes, recurrentNodes[i])
        /\ G.op[recurrentNodes[i]] # "PastValue"
        /\ G.op[recurrentNodes[i]] # "FutureValue"

\* first loop over the members: layout check, UpdateFunctionMBSize,
\* OnEvaluateBeginIteration
RECURSIVE LoopCommence(_, _, _)
LoopCommence(ns, members, i) ==
    IF i > Len(members) \/ ns.err # "" THEN ns
    ELSE LET pMBLayout == ns.node[members[1]].layout
             n == members[i]
         IN IF ~pMBLayout \/ ns.node[n].layout # pMBLayout
            THEN Fail(ns, "LoopLayoutMismatch")
            ELSE Then(Log(UpdateFunctionMBSize(ns, n), "OnEvaluateBeginIteration", n, AllFrames),
                      LAMBDA next : LoopCommence(next, members, i + 1))

\* second loop over the members: Validate(true)
RECURSIVE LoopValidate(_, _, _)
LoopValidate(ns, members, i) ==
    IF i > Len(members) THEN ns
    ELSE Then(ValidateFinal(ns, members[i]),
              LAMBDA next : LoopValidate(next, members, i + 1))

\* a time step that leaves the member's timestamp alone
EvaluateMemberAtKeepingStamp(ns, n, t) ==
    LET done == Log(ns, "EvaluateThisNode", n, t)
    IN IF IsNodeReqMultiSeqHandling(G, n)
       THEN Log(done, "MaskMissingValuesColumnsToZero", n, t)
       ELSE done

\* one member in one time step
EvaluateMemberAt(ns, n, t) ==
    LET done   == Log(ns, "EvaluateThisNode", n, t)
        masked == IF IsNodeReqMultiSeqHandling(G, n)
                  THEN Log(done, "MaskMissingValuesColumnsToZero", n, t)
                  ELSE done
    IN UpdateEvalTimeStamp(masked, n)

\* all members in one time step, in the order of the list
RECURSIVE EvaluateFrame(_, _, _, _)
EvaluateFrame(ns, members, i, t) ==
    IF i > Len(members) THEN ns
    ELSE Then(EvaluateMemberAt(ns, members[i], t),
              LAMBDA next : EvaluateFrame(next, members, i + 1, t))

\* all time steps, in the order of the iteration
RECURSIVE EvaluateFrames(_, _, _, _)
EvaluateFrames(ns, members, frames, k) ==
    IF k > Len(frames) THEN ns
    ELSE Then(EvaluateFrame(ns, members, 1, frames[k]),
              LAMBDA next : EvaluateFrames(next, members, frames, k + 1))

\* a loop that ends without telling its members
LoopEndUntold(ns, members, i) == ns

RECURSIVE LoopEnd(_, _, _)
LoopEnd(ns, members, i) ==
    IF i > Len(members) THEN ns
    ELSE Then(Log(ns, "OnEvaluateEndIteration", members[i], AllFrames),
              LAMBDA next : LoopEnd(next, members, i + 1))

\* the recurrent branch of Evaluate() iterating rbegin()..rend()
EvaluateLoopReversedFrames(ns, r) ==
    Then(ns.rec[r].m_recurrentNodesForForward, LAMBDA recurrentNodes :
    Then(LoopCommence(ns, recurrentNodes, 1), LAMBDA commenced :
      IF commenced.err # "" THEN commenced
      ELSE
    Then(LoopValidate(commenced, recurrentNodes, 1), LAMBDA sized :
    Then(FramesReversed(sized.layout.T, sized.rec[r].m_steppingDirection), LAMBDA frames :
    Then(EvaluateFrames(sized, recurrentNodes, frames, 1), LAMBDA run :
    Then(LoopEnd(run, recurrentNodes, 1), LAMBDA ended :
      [ended EXCEPT !.rec[r].m_completedEvaluate = TRUE]))))))

\* the recurrent branch of Evaluate(): the loop r, frame by frame
EvaluateLoop(ns, r) ==
    Then(ns.rec[r].m_recurrentNodesForForward, LAMBDA recurrentNodes :
    Then(LoopCommence(ns, recurrentNodes, 1), LAMBDA commenced :
      IF commenced.err # "" THEN commenced
      ELSE
    Then(LoopValidate(commenced, recurrentNodes, 1), LAMBDA sized :
    Then(Frames(sized.layout.T, sized.rec[r].m_steppingDirection), LAMBDA frames :
    Then(EvaluateFrames(sized, recurrentNodes, frames, 1), LAMBDA run :
    Then(LoopEnd(run, recurrentNodes, 1), LAMBDA ended :
      [ended EXCEPT !.rec[r].m_completedEvaluate = TRUE]))))))

\* the whole-minibatch branch of Evaluate()
EvaluateWholeBatch(ns, n) ==
    LET sized  == UpdateFunctionMBSize(ns, n)
        valid  == IF ~IsLeaf(G, n) /\ ~RequiresPreCompute(G, n)
                  THEN ValidateFinal(sized, n) ELSE sized
        begun  == Log(valid, "OnEvaluateBeginIteration", n, AllFrames)
        done   == Log(begun, "EvaluateThisNode", n, AllFrames)
        masked == IF IsNodeReqMultiSeqHandling(G, n)
                  THEN Log(done, "MaskMissingValuesColumnsToZero", n, AllFrames)
                  ELSE done
        ended  == Log(masked, "OnEvaluateEndIteration", n, AllFrames)
    IN UpdateEvalTimeStamp(ended, n)

\* the traversal of Evaluate() with the whole-minibatch branch open to
\* members of loops (the test of recInfo dropped)
EvaluateNodeWholeBatchInLoops(ns, n) ==
    LET recInfo == FindInRecurrentLoops(ns.rec, n)
    IN IF /\ recInfo # 0
          /\ IsFuncValueOlderThanInputs(ns.node, ns.rec[recInfo].m_recurrentNodesForForward)
          /\ ~ns.rec[recInfo].m_completedEvaluate
       THEN EvaluateLoop(ns, recInfo)
       ELSE IF NodeIsOlderThanInputs(ns.node, n)
       THEN EvaluateWholeBatch(ns, n)
       ELSE Log(ns, "OnEvaluateEndIteration", n, AllFrames)

\* the body of the traversal of Evaluate() for one node
EvaluateNode(ns, n) ==
    LET recInfo == FindInRecurrentLoops(ns.rec, n)
    IN IF /\ recInfo # 0
          /\ IsFuncValueOlderThanInputs(ns.node, ns.rec[recInfo].m_recurrentNodesForForward)
          /\ ~ns.rec[recInfo].m_completedEvaluate
       THEN EvaluateLoop(ns, recInfo)
       ELSE IF recInfo = 0 /\ NodeIsOlderThanInputs(ns.node, n)
       THEN EvaluateWholeBatch(ns, n)
       ELSE Log(ns, "OnEvaluateEndIteration", n, AllFrames)

RECURSIVE EvaluateFrom(_, _, _)
EvaluateFrom(ns, allNodes, i) ==
    IF i > Len(allNodes) \/ ns.err # "" THEN ns
    ELSE Then(EvaluateNode(ns, allNodes[i]),
              LAMBDA next : EvaluateFrom(next, allNodes, i + 1))

ResetCompletedEvaluate(ns) ==
    [ns EXCEPT !.rec = [i \in 1..Len(ns.rec) |-> [@[i] EXCEPT !.m_completedEvaluate = FALSE]]]

\* BuiltAndValidatedSubNetwork(rootNode)
BuiltAndValidatedSubNetwork(built, root) == root \in built

\* Evaluate() with the reset of m_completedEvaluate moved before the check
\* of the build cache
EvaluateResetBeforeCheck(ns, root) ==
    IF ~BuiltAndValidatedSubNetwork(ns.built, root)
    THEN Fail(ResetCompletedEvaluate(ns), "NotBuilt")
    ELSE Then(GetEvalOrder(root), LAMBDA allNodes :
         Then(ResetCompletedEvaluate(ns), LAMBDA begun :
           EvaluateFrom(begun, allNodes, 1)))

\* Evaluate(rootNode)
Evaluate(ns, root) ==
    IF ~BuiltAndValidatedSubNetwork(ns.built, root)
    THEN Fail(ns, "NotBuilt")
    ELSE Then(GetEvalOrder(root), LAMBDA allNodes :
         Then(ResetCompletedEvaluate(ns), LAMBDA begun :
           EvaluateFrom(begun, allNodes, 1)))

----------------------------------------------------------------------------
(* Differentiator.  A gradient buffer holds "none" (never written),       *)
(* "zero" (cleared), "one" (the 1x1 value 1), "init" (the caller's initial *)
(* root gradient) or "sum" (contributions of parents added).               *)

\* ClearGradientForAllNodes(rootNode): zero the gradients of the subnetwork
ClearGradientForAllNodes(ns, root) ==
    Log([ns EXCEPT !.node = [n \in Nodes |->
                               IF n \in SubNetwork(G, root)
                               THEN [@[n] EXCEPT !.gradient = "zero"] ELSE @[n]]],
        "ClearGradientForAllNodes", root, AllFrames)

\* node->ComputeGradientForChildren(frameRange): adds to the children's gradients
ComputeGradientForChildren(ns, n, t) ==
    Log([ns EXCEPT !.node = [c \in Nodes |->
                               IF c \in Range(Children(G, n))
                               THEN [@[c] EXCEPT !.gradient = "sum"] ELSE @[c]]],
        "ComputeGradientForChildren", n, t)

RECURSIVE LogAll(_, _, _, _)
LogAll(ns, h, members, i) ==
    IF i > Len(members) THEN ns
    ELSE Then(Log(ns, h, members[i], AllFrames),
              LAMBDA next : LogAll(next, h, members, i + 1))

\* one member in one time step of the backward pass
GradientMemberAt(ns, n, t) ==
    LET verified == Log(ns, "VerifyNumParallelSequences", n, t)
        masked   == IF IsNodeReqMultiSeqHandling(G, n)
                    THEN Log(verified, "MaskMissingGradientColumnsToZero", n, t)
                    ELSE verified
    IN ComputeGradientForChildren(masked, n, t)

\* all members in one time step, last member of the list first
RECURSIVE GradientFrame(_, _, _, _)
GradientFrame(ns, members, i, t) ==
    IF i < 1 THEN ns
    ELSE Then(GradientMemberAt(ns, members[i], t),
              LAMBDA next : GradientFrame(next, members, i - 1, t))

RECURSIVE GradientFrames(_, _, _, _)
GradientFrames(ns, members, frames, k) ==
    IF k > Len(frames) THEN ns
    ELSE Then(GradientFrame(ns, members, Len(members), frames[k]),
              LAMBDA next : GradientFrames(next, members, frames, k + 1))

\* the recurrent branch of ComputeGradient(): the loop r, frame by frame
GradientLoop(ns, r) ==
    Then(ns.rec[r].m_recurrentNodesForForward, LAMBDA recurrentNodes :
    Then(LogAll(ns, "OnComputeGradientBeginIteration", recurrentNodes, 1), LAMBDA begun :
    Then(FramesReversed(ns.layout.T, ns.rec[r].m_steppingDirection), LAMBDA frames :
    Then(GradientFrames(begun, recurrentNodes, frames, 1), LAMBDA run :
    Then(LogAll(run, "OnComputeGradientEndIteration", recurrentNodes, 1), LAMBDA ended :
      [ended EXCEPT !.rec[r].m_completedGradient = TRUE])))))

\* the whole-minibatch branch of ComputeGradient()
GradientWholeBatch(ns, n) ==
    LET begun == Log(ns, "OnComputeGradientBeginIteration", n, AllFrames)
        multi == IsNodeReqMultiSeqHandling(G, n)
        masked == IF multi
                  THEN Log(begun, "MaskMissingGradientColumnsToZero", n, AllFrames)
                  ELSE begun
        done  == ComputeGradientForChildren(masked, n, AllFrames)
    IN IF multi /\ begun.node[n].isPartOfLoop
       THEN Fail(begun, "WholeBatchOnLoopNode")
       ELSE Log(done, "OnComputeGradientEndIteration", n, AllFrames)

\* the body of the traversal of ComputeGradient() for one node
GradientNode(ns, n) ==
    LET recInfo == FindInRecurrentLoops(ns.rec, n)
    IN IF recInfo # 0
       THEN IF ~ns.rec[recInfo].m_completedGradient THEN GradientLoop(ns, recInfo) ELSE ns
       ELSE GradientWholeBatch(ns, n)

RECURSIVE GradientFrom(_, _, _)
GradientFrom(ns, allNodes, i) ==
    IF i > Len(allNodes) \/ ns.err # "" THEN ns
    ELSE Then(GradientNode(ns, allNodes[i]),
              LAMBDA next : GradientFrom(next, allNodes, i + 1))

\* ComputationNetwork::ResetEvalTimeStamp(): every node of the network
\* takes the current value of the counter
ResetEvalTimeStamp(ns0) ==
    Then(ns0, LAMBDA ns :
      Log([ns EXCEPT !.node = [n \in Nodes |-> [@[n] EXCEPT !.m_evalTimeStamp = ns.clock]]],
          "ResetEvalTimeStamp", 0, AllFrames))

\* the seeding of the root gradient with the two assignments swapped
SeedRootGradientOneLast(ns, root, bResetToOne, hasInitValue) ==
    LET init == IF hasInitValue
                THEN Log([ns EXCEPT !.node[root].gradient = "init"],
                         "SetRootGradientToInitValue", root, AllFrames)
                ELSE ns
    IN IF bResetToOne
       THEN Log([init EXCEPT !.node[root].gradient = "one"],
                "SetRootGradientToOne", root, AllFrames)
       ELSE init

\* the seeding of the root gradient
SeedRootGradient(ns, root, bResetToOne, hasInitValue) ==
    LET one == IF bResetToOne
               THEN Log([ns EXCEPT !.node[root].gradient = "one"],
                        "SetRootGradientToOne", root, AllFrames)
               ELSE ns
    IN IF hasInitValue
       THEN Log([one EXCEPT !.node[root].gradient = "init"],
                "SetRootGradientToInitValue", root, AllFrames)
       ELSE one

\* the gradients cleared before the forward pass is run
ClearedBeforeForward(ns, root, bResetToOne, hasInitValue, bClearGradient) ==
    Then(IF bClearGradient THEN ClearGradientForAllNodes(ns, root) ELSE ns,
         LAMBDA cleared :
    Then(Evaluate(cleared, root), LAMBDA forward :
      IF forward.err # "" THEN forward
      ELSE SeedRootGradient(forward, root, bResetToOne, hasInitValue)))

\* ComputeGradient() up to the start of the backward walk: the forward
\* pass, the clearing of the gradients and the seeding of the root gradient
SeededForBackward(ns, root, bResetToOne, hasInitValue, bClearGradient) ==
    Then(Evaluate(ns, root), LAMBDA forward :
      IF forward.err # "" THEN forward
      ELSE
    Then(IF bClearGradient THEN ClearGradientForAllNodes(forward, root) ELSE forward,
         LAMBDA cleared :
      SeedRootGradient(cleared, root, bResetToOne, hasInitValue)))

\* ComputeGradient() that ignores resetTimeStampAfterComputation
ComputeGradientNoReset(ns, root, bResetToOne, hasInitValue, bClearGradient, resetTimeStamp) ==
    Then(SeededForBackward(ns, root, bResetToOne, hasInitValue, bClearGradient),
         LAMBDA seeded :
      IF seeded.err # "" THEN seeded
      ELSE
    Then(Log(seeded, "BackwardPass", root, AllFrames), LAMBDA begun :
    Then(GetGradientCalcOrder(root), LAMBDA allNodes :
      GradientFrom(begun, allNodes, 1))))

\* ComputeGradient(rootNode, bResetToOne, rootGradientInitValue,
\*                 bClearGradient, resetTimeStampAfterComputation)
ComputeGradient(ns, root, bResetToOne, hasInitValue, bClearGradient, resetTimeStamp) ==
    Then(SeededForBackward(ns, root, bResetToOne, hasInitValue, bClearGradient),
         LAMBDA seeded :
      IF seeded.err # "" THEN seeded
      ELSE
    Then(Log(seeded, "BackwardPass", root, AllFrames), LAMBDA begun :
    Then(GetGradientCalcOrder(root), LAMBDA allNodes :
    Then(GradientFrom(begun, allNodes, 1), LAMBDA backward :
      IF backward.err # "" THEN backward
      ELSE IF resetTimeStamp THEN ResetEvalTimeStamp(backward)
      ELSE backward))))

----------------------------------------------------------------------------
(* BuildCache *)

\* CollectInputAndLearnableParameters(rootNode): fills the per-root lists
\* of inputs and parameters, which are functions of the graph here
CollectInputAndLearnableParameters(ns, root) ==
    Log(ns, "CollectInputAndLearnableParameters", root, AllFrames)

\* BuildAndValidateSubNetwork() without the return for a root already in
\* the cache
BuildWithoutMemo(ns, root) ==
    Then(Log([ns EXCEPT !.built = @ \cup {root}], "FormRecurrentLoops", root, AllFrames),
         LAMBDA remembered :
    Then(FormRecurrentLoops(remembered, root), LAMBDA formed :
      IF formed.err # "" THEN formed
      ELSE Then(CollectInputAndLearnableParameters(formed, root),
                LAMBDA collected : ValidateSubNetwork(collected, root))))

\* BuildAndValidateSubNetwork(rootNode)
BuildAndValidateSubNetwork(ns, root) ==
    IF root \in ns.built THEN ns
    ELSE
    Then(Log([ns EXCEPT !.built = @ \cup {root}], "FormRecurrentLoops", root, AllFrames),
         LAMBDA remembered :
    Then(FormRecurrentLoops(remembered, root), LAMBDA formed :
      IF formed.err # "" THEN formed
      ELSE Then(CollectInputAndLearnableParameters(formed, root),
                LAMBDA collected : ValidateSubNetwork(collected, root))))

----------------------------------------------------------------------------
(* The minibatch reader: sets the layout, resizes the inputs and stamps   *)
(* them as changed.                                                        *)

RECURSIVE StampInputs(_, _, _)
StampInputs(ns, inputs, i) ==
    IF i > Len(inputs) THEN ns
    ELSE Then(UpdateEvalTimeStamp([ns EXCEPT !.node[inputs[i]].cols = LayoutCols(ns.layout)],
                                  inputs[i]),
              LAMBDA next : StampInputs(next, inputs, i + 1))

AllInputNodes == SelectSeq(m_cacheEvalOrders, LAMBDA n : G.op[n] = "InputValue")

ReadMinibatch(ns, T) ==
    Then(AllInputNodes, LAMBDA inputs :
    Then([ns EXCEPT !.layout = [T |-> T, S |-> 1]], LAMBDA laidOut :
      StampInputs(laidOut, inputs, 1)))

----------------------------------------------------------------------------
(* State machine *)

EmptyLayout == [T |-> 0, S |-> 0]

InitNode(g, layout, n) ==
    [m_evalTimeStamp |-> 0,
     m_visited       |-> FALSE,
     m_needsGradient |-> FALSE,
     rows            |-> g.rows[n],
     cols            |-> IF g.op[n] = "InputValue" /\ LayoutCols(layout) # 0
                         THEN LayoutCols(layout) ELSE g.cols[n],
     layout          |-> FALSE,
     isPartOfLoop    |-> n \in g.claimsLoop,
     gradient        |-> "none"]

Snapshot ==
    [call   |-> lastCall,
     rec    |-> m_recurrentInfo,
     node   |-> node,
     layout |-> m_pMBLayout,
     clock  |-> s_timeStampCounter,
     built  |-> m_built]

Init ==
    /\ net \in 1..Len(Networks)
    /\ m_cacheEvalOrders \in EvalOrders(Networks[net])
    /\ m_built = {}
    /\ m_recurrentInfo = <<>>
    /\ m_pMBLayout \in {EmptyLayout} \cup {[T |-> t, S |-> 1] : t \in 1..MaxT}
    /\ node = [n \in NodesOf(Networks[net]) |-> InitNode(Networks[net], m_pMBLayout, n)]
    /\ s_timeStampCounter = 0
    /\ validated = {}
    /\ trace = <<>>
    /\ lastCall = [op |-> "none", root |-> 0, args |-> <<>>, err |-> ""]
    /\ pre = [call |-> lastCall, rec |-> <<>>, node |-> node,
              layout |-> m_pMBLayout, clock |-> 0, built |-> {}]
    /\ nCalls = 0

\* a further call can be made: the last one has returned
CanCall ==
    /\ nCalls < MaxCalls
    /\ lastCall.err # "DoesNotReturn"

\* a call of a method: the network takes the state the method leaves
Call(op, root, args, ns) ==
    /\ nCalls' = nCalls + 1
    /\ lastCall' = [op |-> op, root |-> root, args |-> args, err |-> ns.err]
    /\ pre' = Snapshot
    /\ trace' = ns.trace
    /\ m_built' = ns.built
    /\ m_recurrentInfo' = ns.rec
    /\ m_pMBLayout' = ns.layout
    /\ node' = ns.node
    /\ s_timeStampCounter' = ns.clock
    /\ validated' = ns.validated
    /\ UNCHANGED <<net, m_cacheEvalOrders>>

DoBuildAndValidateSubNetwork ==
    /\ CanCall
    /\ \E root \in G.roots :
      \E entry \in {NetState} :
        \E ns \in {BuildAndValidateSubNetwork(entry, root)} :
          Call("BuildAndValidateSubNetwork", root, <<>>, ns)

DoEvaluate ==
    /\ CanCall
    /\ \E root \in G.roots :
      \E entry \in {NetState} :
        \E ns \in {Evaluate(entry, root)} :
          Call("Evaluate", root, <<>>, ns)

\* ComputeGradient on the training criterion; seeds are the pairs
\* <<bResetToOne, rootGradientInitValue given>>, and resets the values of
\* resetTimeStampAfterComputation, the caller may pass
ComputeGradientCall(seeds, resets) ==
    /\ CanCall
    /\ \E seed \in seeds, bClearGradient \in BOOLEAN, resetTimeStamp \in resets :
      \E entry \in {NetState} :
        \E ns \in {ComputeGradient(entry, G.criterion, seed[1], seed[2],
                                    bClearGradient, resetTimeStamp)} :
          Call("ComputeGradient", G.criterion,
               <<seed[1], seed[2], bClearGradient, resetTimeStamp>>, ns)

\* the call of the training loop: the criterion's gradient is reset to 1
DoComputeGradient == ComputeGradientCall({<<TRUE, FALSE>>}, BOOLEAN)

\* calls that hand over any combination of bResetToOne and
\* rootGradientInitValue
DoComputeGradientSeeded == ComputeGradientCall(BOOLEAN \X BOOLEAN, {FALSE})

DoReadMinibatch ==
    /\ CanCall
    /\ \E T \in 1..MaxT :
      \E entry \in {NetState} :
        \E ns \in {ReadMinibatch(entry, T)} :
          Call("ReadMinibatch", 0, <<T>>, ns)

DoValidateNetwork ==
    /\ CanCall
    /\ \E allowFragment, bAllowNoCriterion \in BOOLEAN :
      \E entry \in {NetState} :
        \E ns \in {ValidateNetwork(entry, allowFragment, bAllowNoCriterion)} :
          Call("ValidateNetwork", 0, <<allowFragment, bAllowNoCriterion>>, ns)

\* the callers of training and evaluation
Next ==
    \/ DoBuildAndValidateSubNetwork
    \/ DoEvaluate
    \/ DoComputeGradient
    \/ DoReadMinibatch

Spec == Init /\ [][Next]_vars

\* the callers that validate: the whole network after loading, and the
\* roots one by one
NextNetwork ==
    \/ DoValidateNetwork
    \/ DoBuildAndValidateSubNetwork
    \/ DoReadMinibatch

NetworkSpec == Init /\ [][NextNetwork]_vars

\* the passes of a validation, one call of ValidateNodes() at a time
MaxPasses == 4

\* ValidateSubNetwork(root) up to its while loop: the inputs are linked to
\* the layout, m_visited and m_needsGradient are reset
EnterValidateSubNetwork ==
    /\ nCalls <= MaxPasses
    /\ lastCall.err = ""
    /\ \/ lastCall.op = "none"
       \/ lastCall.op = "ValidateNodes" /\ lastCall.args[1]
    /\ \E root \in G.roots :
      \E entry \in {NetState} :
        \E ns \in {ResetVisited(LinkInputs(Log(entry, "ValidateSubNetwork", root, AllFrames),
                                           InputNodes(root), 1),
                                GetEvalOrder(root))} :
          Call("ValidateSubNetwork", root, <<>>, ns)

\* toValidate as the last pass returned it
LastTodo == trace[Len(trace)].t

\* the next call of ValidateNodes() that ValidateSubNetwork(root) makes:
\* not final while the last pass left work to do, final after that
DoValidateNodes ==
    /\ nCalls <= MaxPasses
    /\ lastCall.err = ""
    /\ \/ lastCall.op = "ValidateSubNetwork"
       \/ lastCall.op = "ValidateNodes" /\ ~lastCall.args[1]
    /\ \E isFinal \in {lastCall.op = "ValidateNodes" /\ LastTodo = 0} :
      \E entry \in {NetState} :
        \E vs \in {ValidateNodes(entry, GetEvalOrder(lastCall.root), isFinal)} :
          Call("ValidateNodes", lastCall.root, <<isFinal>>, vs.ns)

NextPass ==
    \/ EnterValidateSubNetwork
    \/ DoValidateNodes

PassSpec == Init /\ [][NextPass]_vars

\* the callers that validate the network after loading and then evaluate
NextLoaded ==
    \/ DoValidateNetwork
    \/ DoBuildAndValidateSubNetwork
    \/ DoEvaluate

LoadedSpec == Init /\ [][NextLoaded]_vars

\* the callers that seed the root gradient in every way
NextSeeded ==
    \/ DoBuildAndValidateSubNetwork
    \/ DoComputeGradientSeeded

SeededSpec == Init /\ [][NextSeeded]_vars

----------------------------------------------------------------------------
(* Reading the trace of the last call *)

IsHook(e, h) == e.h = h

\* the events of hook h, in order
Hooks(h) == SelectSeq(trace, LAMBDA e : IsHook(e, h))

\* the (node, frame) pairs of a sequence of events
Pairs(events) == [i \in 1..Len(events) |-> <<events[i].n, events[i].t>>]

\* number of events of hook h on node n for frame t
Count(h, n, t) == Cardinality({i \in 1..Len(trace) : trace[i] = Ev(h, n, t)})

\* the network state of the entry of the last call is unchanged
NetworkUntouched ==
    /\ m_recurrentInfo = pre.rec
    /\ node = pre.node
    /\ m_pMBLayout = pre.layout
    /\ s_timeStampCounter = pre.clock
    /\ m_built = pre.built

Returned == lastCall.err = ""

\* the last call ran Evaluate(root) past its precondition
RanForward(root) ==
    /\ lastCall.op \in {"Evaluate", "ComputeGradient"}
    /\ lastCall.root = root
    /\ root \in pre.built

\* loops (indices in m_recurrentInfo) with a member in root's subnetwork
LoopsIn(root) ==
    {r \in 1..Len(m_recurrentInfo) :
        Range(m_recurrentInfo[r].m_recurrentNodes) \cap SubNetwork(G, root) # {}}

----------------------------------------------------------------------------
(* C1 *)

\* C1: Evaluate(root) on a root that is not in the build cache fails with
\* NotBuilt, having invoked no hook and changed nothing: no timestamp, no
\* m_completedEvaluate flag, no node state.
C1_NotBuiltTouchesNothing ==
    (lastCall.op = "Evaluate" /\ lastCall.root \notin pre.built)
        => /\ lastCall.err = "NotBuilt"
           /\ trace = <<>>
           /\ NetworkUntouched

\* C1 witness: Evaluate of a descendant of a built root failed with NotBuilt
\* while a loop of the network had m_completedEvaluate set
C1_Witness ==
    /\ lastCall.op = "Evaluate"
    /\ lastCall.err = "NotBuilt"
    /\ \E r \in m_built : lastCall.root \in SubNetwork(G, r) \ {r}
    /\ \E i \in 1..Len(m_recurrentInfo) : m_recurrentInfo[i].m_completedEvaluate

----------------------------------------------------------------------------
(* C2 *)

\* C2: a root is in the build cache only if a ValidateSubNetwork(root) has
\* completed without error.
C2_BuiltImpliesValidated == \A root \in m_built : root \in validated

----------------------------------------------------------------------------
(* C3 *)

BuildSteps == {"FormRecurrentLoops", "CollectInputAndLearnableParameters",
               "ValidateSubNetwork"}

InBuildSteps(e) == e.h \in BuildSteps

\* C3: BuildAndValidateSubNetwork(root) for a root that is in the cache
\* does nothing at all; for a root that is not, it runs FormRecurrentLoops,
\* CollectInputAndLearnableParameters and ValidateSubNetwork on that root,
\* in this order, whatever else was built before.
C3_BuildMemoizedPerRoot ==
    lastCall.op = "BuildAndValidateSubNetwork" =>
        IF lastCall.root \in pre.built
        THEN trace = <<>> /\ NetworkUntouched /\ Returned
        ELSE SelectSeq(trace, InBuildSteps) =
                << Ev("FormRecurrentLoops", lastCall.root, AllFrames),
                   Ev("CollectInputAndLearnableParameters", lastCall.root, AllFrames),
                   Ev("ValidateSubNetwork", lastCall.root, AllFrames) >>

\* C3 witness: a repeated build of a root was a no-op after two roots with
\* overlapping subnetworks had each been built and validated
C3_Witness ==
    /\ lastCall.op = "BuildAndValidateSubNetwork"
    /\ lastCall.root \in pre.built
    /\ trace = <<>>
    /\ \E r1, r2 \in validated : r1 # r2 /\ SubNetwork(G, r1) \cap SubNetwork(G, r2) # {}

----------------------------------------------------------------------------
(* C4 *)

\* number of UpdateEvalTimeStamp events among the first k events
StampsUpTo(k) == Cardinality({j \in 1..k : trace[j].h = "UpdateEvalTimeStamp"})

\* the timestamp of node m just before event k of the call
StampBefore(k, m) ==
    LET mine == {j \in 1..(k - 1) : trace[j] = Ev("UpdateEvalTimeStamp", m, AllFrames)}
    IN IF mine = {} THEN pre.node[m].m_evalTimeStamp
       ELSE pre.clock + StampsUpTo(CHOOSE j \in mine : \A j2 \in mine : j2 <= j)

\* the node states just before event k of the call, as far as timestamps go
NodesBefore(k) ==
    [m \in Nodes |-> [pre.node[m] EXCEPT !.m_evalTimeStamp = StampBefore(k, m)]]

EvaluatedBefore(k, c) ==
    \E j \in 1..(k - 1) : trace[j].h = "EvaluateThisNode" /\ trace[j].n = c

\* c is stale just before event k: by its loop's check when it is in a loop
\* and by its own otherwise
StaleBefore(k, c) ==
    LET r == FindInRecurrentLoops(m_recurrentInfo, c)
    IN IF r # 0
       THEN IsFuncValueOlderThanInputs(NodesBefore(k),
                                       m_recurrentInfo[r].m_recurrentNodesForForward)
       ELSE NodeIsOlderThanInputs(NodesBefore(k), c)

\* the events that are the first EvaluateThisNode of their node
FirstEvaluations ==
    {k \in 1..Len(trace) :
        trace[k].h = "EvaluateThisNode" /\ ~EvaluatedBefore(k, trace[k].n)}

\* C4: in Evaluate(root), when a node is evaluated for the first time, each
\* child it reaches through a non-delay edge is up to date: it has been
\* evaluated in this call or is not stale.
C4_ChildrenBeforeParents ==
    \A root \in G.roots :
        RanForward(root) =>
            \A k \in FirstEvaluations :
                LET n == trace[k].n
                IN IsDelay(G, n) \/
                   \A c \in Range(Children(G, n)) :
                       EvaluatedBefore(k, c) \/ ~StaleBefore(k, c)

\* the cached evaluation order keeps every loop in one block after all the
\* nodes outside it that its members use (the orders for which C4 holds)
LoopsAfterTheirInputs ==
    \A n \in Nodes : \A c \in Range(Children(G, n)) :
        (~IsDelay(G, n) /\ SCC(G, n) # {} /\ c \notin SCC(G, n))
            => \A m \in SCC(G, n) : IndexOf(m_cacheEvalOrders, c) < IndexOf(m_cacheEvalOrders, m)

C4_HoldsForBlockOrders == LoopsAfterTheirInputs => C4_ChildrenBeforeParents

----------------------------------------------------------------------------
(* C5 *)

IsMemberEvent(e, h, r) ==
    e.h = h /\ e.n \in Range(m_recurrentInfo[r].m_recurrentNodes)

\* the (node, frame) pairs of hook h on the members of loop r, in order
LoopPairs(h, r) == Pairs(SelectSeq(trace, LAMBDA e : IsMemberEvent(e, h, r)))

\* time steps in the order a loop of the given direction visits them:
\* 0..T-1 for +1 and T-1..0 for -1; `backward' swaps the two
FrameAt(T, direction, backward, q) ==
    IF (direction = 1) = ~backward THEN q ELSE T - 1 - q

\* frame-major schedule of loop r over T time steps: position i holds
\* member (i-1) mod M of the forward list (of the reversed list when
\* backward) in the ((i-1) div M)-th frame visited
LoopSchedule(r, T, backward) ==
    LET fwd == m_recurrentInfo[r].m_recurrentNodesForForward
        M   == Len(fwd)
    IN [i \in 1..(T * M) |->
          << IF backward THEN fwd[M - ((i - 1) % M)] ELSE fwd[((i - 1) % M) + 1],
             FrameAt(T, m_recurrentInfo[r].m_steppingDirection, backward, (i - 1) \div M) >>]

\* C5: a loop that Evaluate runs gets EvaluateThisNode on every member
\* once per frame, frame by frame in the loop's direction and, within a
\* frame, in the order of m_recurrentNodesForForward; a loop whose backward
\* pass ComputeGradient runs gets ComputeGradientForChildren in the
\* opposite frame order and, within a frame, the reversed member order.
C5_LoopFrameOrder ==
    \A r \in 1..Len(m_recurrentInfo) :
        /\ LoopPairs("EvaluateThisNode", r)
              \in {<<>>, LoopSchedule(r, pre.layout.T, FALSE)}
        /\ LoopPairs("ComputeGradientForChildren", r)
              \in {<<>>, LoopSchedule(r, pre.layout.T, TRUE)}

\* C5 witness: one ComputeGradient call ran a FutureValue loop of three
\* members over two time steps, forward and backward
C5_Witness ==
    /\ lastCall.op = "ComputeGradient"
    /\ Returned
    /\ pre.layout.T = 2
    /\ \E r \in 1..Len(m_recurrentInfo) :
          /\ m_recurrentInfo[r].m_steppingDirection = 0 - 1
          /\ Len(m_recurrentInfo[r].m_recurrentNodesForForward) = 3
          /\ Len(LoopPairs("EvaluateThisNode", r)) = 6
          /\ Len(LoopPairs("ComputeGradientForChildren", r)) = 6

----------------------------------------------------------------------------
(* C6 *)

IsNonLeafEvent(e, h) == e.h = h /\ ~IsLeaf(G, e.n)

\* C6: when every node that has inputs is stale at the entry of
\* ComputeGradient(root), the (node, frame) pairs of
\* ComputeGradientForChildren are the reverse of the (node, frame) pairs of
\* EvaluateThisNode of the forward pass of the call.  (Leaves have no
\* inputs to be older than and are never evaluated; they are left out of
\* both sequences.)
C6_BackwardIsReverseOfForward ==
    ( /\ lastCall.op = "ComputeGradient"
      /\ Returned
      /\ \A n \in SubNetwork(G, lastCall.root) :
            IsLeaf(G, n) \/ NodeIsOlderThanInputs(pre.node, n) )
    => Pairs(SelectSeq(trace, LAMBDA e : IsNonLeafEvent(e, "ComputeGradientForChildren")))
         = Reverse(Pairs(SelectSeq(trace, LAMBDA e : IsNonLeafEvent(e, "EvaluateThisNode"))))

----------------------------------------------------------------------------
(* C7 *)

InLoop(n) == FindInRecurrentLoops(m_recurrentInfo, n) # 0

\* C7: in one Evaluate(root), a node outside the loops is evaluated at most
\* once, a member of a loop at most once per frame, and a member of a loop
\* never for the whole minibatch.
C7_EvaluatedAtMostOnce ==
    \A root \in G.roots :
        RanForward(root) =>
            \A n \in Nodes :
                /\ Count("EvaluateThisNode", n, AllFrames) <= 1
                /\ \A t \in 0..(pre.layout.T - 1) : Count("EvaluateThisNode", n, t) <= 1
                /\ InLoop(n) => Count("EvaluateThisNode", n, AllFrames) = 0
                /\ ~InLoop(n) =>
                      \A t \in 0..(pre.layout.T - 1) : Count("EvaluateThisNode", n, t) = 0

\* C7 witness: an Evaluate ran a loop over two frames and then met further
\* members of the loop, whose delay node is stale again by its own check
C7_Witness ==
    /\ lastCall.op = "Evaluate"
    /\ Returned
    /\ pre.layout.T = 2
    /\ \E r \in 1..Len(m_recurrentInfo) :
          /\ m_recurrentInfo[r].m_completedEvaluate
          /\ \E n \in Range(m_recurrentInfo[r].m_recurrentNodes) :
                /\ NodeIsOlderThanInputs(node, n)
                /\ Count("EvaluateThisNode", n, 0) = 1
                /\ Count("EvaluateThisNode", n, 1) = 1

----------------------------------------------------------------------------
(* C8 *)

\* the last call is Evaluate(root) entered in the state a returned
\* Evaluate(root) left
SecondEvaluate ==
    /\ lastCall.op = "Evaluate"
    /\ pre.call.op = "Evaluate"
    /\ pre.call.root = lastCall.root
    /\ pre.call.err = ""

\* C8: the second of two successive Evaluate(root) calls executes no node
\* operation: no EvaluateThisNode, no loop, no timestamp changed (the only
\* hook it invokes is OnEvaluateEndIteration of the branch for nodes that
\* are up to date).
C8_EvaluateIdempotent ==
    SecondEvaluate =>
        /\ Returned
        /\ \A k \in 1..Len(trace) : trace[k].h = "OnEvaluateEndIteration"
        /\ \A n \in Nodes : node[n].m_evalTimeStamp = pre.node[n].m_evalTimeStamp
        /\ \A r \in 1..Len(m_recurrentInfo) : ~m_recurrentInfo[r].m_completedEvaluate

C8_HoldsForBlockOrders == LoopsAfterTheirInputs => C8_EvaluateIdempotent

----------------------------------------------------------------------------
(* C9 *)

\* C9: every ComputeGradient(root, ...) that returns has run the backward
\* pass of every loop of the subnetwork exactly once:
\* ComputeGradientForChildren on every member for every frame.
C9_LoopGradientEveryCall ==
    (lastCall.op = "ComputeGradient" /\ Returned) =>
        \A r \in LoopsIn(lastCall.root) :
            \A n \in Range(m_recurrentInfo[r].m_recurrentNodes) :
                \A t \in 0..(pre.layout.T - 1) :
                    Count("ComputeGradientForChildren", n, t) = 1

\* the backward pass of a loop runs in the first ComputeGradient after the
\* loop was formed
C9_HoldsForFirstCall ==
    (\A r \in 1..Len(pre.rec) : ~pre.rec[r].m_completedGradient)
        => C9_LoopGradientEveryCall

----------------------------------------------------------------------------
(* C10 *)

\* the last call is Evaluate(root) entered in the state a returned
\* ComputeGradient(root, ..., resetTimeStampAfterComputation = TRUE) left
EvaluateAfterReset ==
    /\ lastCall.op = "Evaluate"
    /\ Returned
    /\ pre.call.op = "ComputeGradient"
    /\ pre.call.root = lastCall.root
    /\ pre.call.err = ""
    /\ pre.call.args[4]

\* n was run by the call: once for the whole minibatch when it is in no
\* loop, once for every frame when it is
ReRun(n) ==
    IF InLoop(n)
    THEN \A t \in 0..(pre.layout.T - 1) : Count("EvaluateThisNode", n, t) = 1
    ELSE Count("EvaluateThisNode", n, AllFrames) = 1

\* ComputeGradient with resetTimeStampAfterComputation = FALSE resets no
\* timestamp: a node keeps its timestamp unless the forward pass of the
\* call stamped it
NoResetWithoutFlag ==
    (lastCall.op = "ComputeGradient" /\ ~lastCall.args[4]) =>
        /\ Hooks("ResetEvalTimeStamp") = <<>>
        /\ \A n \in Nodes :
              \/ node[n].m_evalTimeStamp = pre.node[n].m_evalTimeStamp
              \/ /\ Count("UpdateEvalTimeStamp", n, AllFrames) > 0
                 /\ node[n].m_evalTimeStamp > pre.node[n].m_evalTimeStamp

\* C10 as stated: the Evaluate(root) after a ComputeGradient that reset the
\* timestamps invokes EvaluateThisNode on every node of the evaluation order.
C10_EveryNodeReRun ==
    /\ EvaluateAfterReset => \A n \in Range(GetEvalOrder(lastCall.root)) : ReRun(n)
    /\ NoResetWithoutFlag

\* a loop has a member that its stale check looks at
HasNonDelayMember(n) ==
    \E m \in Range(m_recurrentInfo[FindInRecurrentLoops(m_recurrentInfo, n)].m_recurrentNodes) :
        ~IsDelay(G, m)

\* C10 amended: the Evaluate(root) after a ComputeGradient that reset the
\* timestamps invokes EvaluateThisNode on every node of the evaluation order
\* that has children (once when in no loop, once per frame when in a loop
\* with a member other than PastValue/FutureValue) and on no leaf; with
\* resetTimeStampAfterComputation = FALSE ComputeGradient resets no timestamp.
C10_EveryNonLeafReRun ==
    /\ EvaluateAfterReset =>
          \A n \in Range(GetEvalOrder(lastCall.root)) :
              IF IsLeaf(G, n) THEN Count("EvaluateThisNode", n, AllFrames) = 0
              ELSE (InLoop(n) => HasNonDelayMember(n)) => ReRun(n)
    /\ NoResetWithoutFlag

\* C10 witness: an Evaluate right after a resetting ComputeGradient re-ran
\* a loop over two frames and a node outside the loops
C10_Witness ==
    /\ EvaluateAfterReset
    /\ pre.layout.T = 2
    /\ pre.clock > 0
    /\ \E n \in Range(GetEvalOrder(lastCall.root)) :
          InLoop(n) /\ Count("EvaluateThisNode", n, 1) = 1
    /\ \E n \in Range(GetEvalOrder(lastCall.root)) :
          ~InLoop(n) /\ ~IsLeaf(G, n) /\ Count("EvaluateThisNode", n, AllFrames) = 1

----------------------------------------------------------------------------
(* Reading the trace of a validation *)

\* the last call built a root that was not in the cache
FreshBuild ==
    /\ lastCall.op = "BuildAndValidateSubNetwork"
    /\ lastCall.root \notin pre.built

IsPassReturn(e) == e.h \in {"ValidateNodes(false)", "ValidateNodes(true)"}

\* the (rows, cols, layout, needsGradient) a node shows to ValidateNodes()
Tuple(nd) == <<nd.layout, nd.rows, nd.cols, nd.m_needsGradient>>

\* what Validate() and the propagation of m_needsGradient make of node n
Revalidated(nodes, n) ==
    [NodeValidate(nodes, n) EXCEPT
       !.m_needsGradient = PropagateNeedsGradient(nodes, n, @)]

----------------------------------------------------------------------------
(* C11 *)

\* C11: ValidateSubNetwork(root) always terminates: a call that validates
\* returns (with ValidationStuck when the passes make no progress), and the
\* build of a root makes at most N+1 non-final passes over the N nodes of
\* its subnetwork.
C11_ValidationTerminates ==
    /\ lastCall.op \in {"BuildAndValidateSubNetwork", "ValidateNetwork"}
          => lastCall.err # "DoesNotReturn"
    /\ FreshBuild
          => Len(Hooks("ValidateNodes(false)"))
                <= Cardinality(SubNetwork(G, lastCall.root)) + 1

\* the calls that return keep to the bound of N+1 passes
C11_ReturningCallsKeepBound ==
    (FreshBuild /\ lastCall.err # "DoesNotReturn")
        => Len(Hooks("ValidateNodes(false)"))
              <= Cardinality(SubNetwork(G, lastCall.root)) + 1

----------------------------------------------------------------------------
(* C12 *)

\* event k is part of a final pass that began right after a non-final pass
\* returned with nothing to redo
AfterCleanPass(k) ==
    \E j \in 1..(k - 1) :
        /\ trace[j] = Ev("ValidateNodes(false)", 0, 0)
        /\ \A j2 \in (j + 1)..(k - 1) :
              ~IsPassReturn(trace[j2]) /\ trace[j2].h # "Validate(false)"

\* a final pass over the nodes root depends on, begun in the current state
\* with no node visited
FinalPassFromScratch(root) ==
    ValidateNodes(ResetVisited(NetState, GetEvalOrder(root)), GetEvalOrder(root), TRUE)

\* C12: the final pass runs once, and only after a non-final pass returned
\* 0; a ValidateSubNetwork that succeeds leaves every node of the
\* subnetwork visited, with Validate(true) called once on it and a tuple
\* that Validate does not change; and a final pass that raises no error and
\* leaves nothing to redo, in whatever state it begins, has visited every
\* node and changed no tuple.
C12_FinalPassConfirms ==
    /\ lastCall.op \in {"BuildAndValidateSubNetwork", "ValidateNetwork"} =>
          \A k \in 1..Len(trace) :
              trace[k].h \in {"Validate(true)", "ValidateNodes(true)"} => AfterCleanPass(k)
    /\ FreshBuild =>
          /\ Len(Hooks("ValidateNodes(true)")) <= 1
          /\ \A n \in Nodes : Count("Validate(true)", n, AllFrames) <= 1
    /\ (FreshBuild /\ Returned) =>
          /\ Hooks("ValidateNodes(true)") = <<Ev("ValidateNodes(true)", 0, 0)>>
          /\ \A n \in SubNetwork(G, lastCall.root) :
                /\ node[n].m_visited
                /\ Count("Validate(true)", n, AllFrames) = 1
                /\ Tuple(Revalidated(node, n)) = Tuple(node[n])
    /\ \A root \in G.roots :
          LET final == FinalPassFromScratch(root)
          IN (final.ns.err = "" /\ final.todo = 0) =>
                \A n \in SubNetwork(G, root) :
                    /\ final.ns.node[n].m_visited
                    /\ Tuple(final.ns.node[n]) = Tuple(ResetVisited(NetState, GetEvalOrder(root)).node[n])

\* C12 witness: the build of a root with a loop returned after three or
\* more non-final passes and one final pass
C12_Witness ==
    /\ FreshBuild
    /\ Returned
    /\ LoopsIn(lastCall.root) # {}
    /\ Len(Hooks("ValidateNodes(false)")) >= 3
    /\ Len(Hooks("ValidateNodes(true)")) = 1

----------------------------------------------------------------------------
(* C13 *)

\* the build of the root raised ZeroDimension exactly when some node of the
\* subnetwork satisfies Zero after the final pass
ZeroDimensionIff(Zero(_)) ==
    (FreshBuild /\ lastCall.err \in {"", "ZeroDimension"}) =>
        (lastCall.err = "ZeroDimension"
            <=> \E n \in SubNetwork(G, lastCall.root) : Zero(node[n]))

ZeroRowsWithLayoutOrZeroCols(nd) == (nd.rows = 0 /\ nd.layout) \/ nd.cols = 0

ZeroRowsAndLayoutOrZeroCols(nd) == nd.rows = 0 /\ (nd.layout \/ nd.cols = 0)

----------------------------------------------------------------------------
(* C14 *)

Missing == {"MissingFeatures", "MissingCriterion", "MissingOutput"}

\* the roots ValidateSubNetwork() was called on, in order
ValidatedRoots ==
    LET calls == Hooks("ValidateSubNetwork")
    IN [i \in 1..Len(calls) |-> calls[i].n]

\* C14: ValidateNetwork(allowFragment, allowNoCriterion) raises none of
\* MissingFeatures, MissingCriterion, MissingOutput when allowFragment is
\* true.  When it is false, the call fails with MissingFeatures if there
\* are no feature nodes; else with MissingCriterion if there are no
\* criterion nodes and allowNoCriterion is false; else, unless the
\* validation of a criterion root failed first, with MissingOutput if there
\* are no output nodes.  No such error is raised for a set that is not
\* empty, and none for the evaluation nodes.  A call that returns has called
\* ValidateSubNetwork once on every criterion, output and evaluation root.
C14_StructuralAbsence ==
    lastCall.op = "ValidateNetwork" =>
        LET allowFragment     == lastCall.args[1]
            bAllowNoCriterion == lastCall.args[2]
            noFeatures  == Len(G.features) = 0
            noCriteria  == Len(G.criteria) = 0
            noOutputs   == Len(G.outputs) = 0
            criterionDue == noCriteria /\ ~bAllowNoCriterion
        IN /\ allowFragment => lastCall.err \notin Missing
           /\ (~allowFragment /\ noFeatures) => lastCall.err = "MissingFeatures"
           /\ (~allowFragment /\ ~noFeatures /\ criterionDue)
                 => lastCall.err = "MissingCriterion"
           /\ (~allowFragment /\ ~noFeatures /\ ~criterionDue /\ noOutputs)
                 => lastCall.err \notin {"", "MissingFeatures", "MissingCriterion"}
           /\ (~allowFragment /\ ~noFeatures /\ ~criterionDue /\ noOutputs
                 /\ Len(ValidatedRoots) = Len(G.criteria)
                 /\ Range(G.criteria) \subseteq validated)
                 => lastCall.err = "MissingOutput"
           /\ lastCall.err = "MissingFeatures" => noFeatures
           /\ lastCall.err = "MissingCriterion" => criterionDue
           /\ lastCall.err = "MissingOutput" => noOutputs
           /\ Returned => ValidatedRoots = G.criteria \o G.outputs \o G.evalNodes

\* C14 witness: with allowFragment false, a network without output nodes
\* had its criterion root validated and then failed with MissingOutput
C14_Witness ==
    /\ lastCall.op = "ValidateNetwork"
    /\ ~lastCall.args[1]
    /\ lastCall.err = "MissingOutput"
    /\ Len(ValidatedRoots) = 1
    /\ Len(G.evalNodes) > 0

----------------------------------------------------------------------------
(* C15 *)

\* the network state at the entry of the last call
PreState ==
    [rec       |-> pre.rec,
     node      |-> pre.node,
     layout    |-> pre.layout,
     clock     |-> pre.clock,
     built     |-> pre.built,
     validated |-> validated,
     err       |-> "",
     trace     |-> <<>>]

\* the last call is a ComputeGradient that reached its backward walk
BackwardBegan ==
    /\ lastCall.op = "ComputeGradient"
    /\ Hooks("BackwardPass") # <<>>

\* position in the trace at which the backward walk starts
WalkStart == CHOOSE k \in 1..Len(trace) : trace[k].h = "BackwardPass"

\* positions of the events of hook h
Positions(h) == {k \in 1..Len(trace) : trace[k].h = h}

\* C15: when the backward walk of ComputeGradient starts, the clearing of
\* the gradients (if clearGradients) has come before every assignment to
\* the root gradient, and the root gradient is the initial value if one is
\* supplied (also with resetRootToOne), else the 1x1 value 1 if
\* resetRootToOne, else zero if the gradients were cleared, else what it
\* was at the entry of the call.
C15_RootGradientSeed ==
    BackwardBegan =>
        LET root == lastCall.root
            bResetToOne    == lastCall.args[1]
            hasInitValue   == lastCall.args[2]
            bClearGradient == lastCall.args[3]
            atWalk == SeededForBackward(PreState, root, bResetToOne, hasInitValue,
                                        bClearGradient)
        IN /\ atWalk.trace = SubSeq(trace, 1, WalkStart - 1)
           /\ atWalk.node[root].gradient =
                 IF hasInitValue THEN "init"
                 ELSE IF bResetToOne THEN "one"
                 ELSE IF bClearGradient THEN "zero"
                 ELSE pre.node[root].gradient
           /\ \A c \in Positions("ClearGradientForAllNodes") :
                 /\ bClearGradient
                 /\ c < WalkStart
                 /\ \A k \in Positions("SetRootGradientToOne")
                             \cup Positions("SetRootGradientToInitValue") : c < k
           /\ bClearGradient => Positions("ClearGradientForAllNodes") # {}
           /\ bClearGradient =>
                 \A n \in SubNetwork(G, root) \ {root} : atWalk.node[n].gradient = "zero"

\* C15 witness: a ComputeGradient that was given both resetRootToOne and an
\* initial root gradient, with clearGradients, on a root whose gradient had
\* been written by an earlier call
C15_Witness ==
    /\ BackwardBegan
    /\ lastCall.args[1] /\ lastCall.args[2] /\ lastCall.args[3]
    /\ pre.node[lastCall.root].gradient \notin {"none", "zero"}

----------------------------------------------------------------------------
(* C16 *)

\* the nodes the backward walk of the last call has taken on the
\* whole-minibatch path
OnWholeBatchPath ==
    {n \in Nodes :
        /\ ~InLoop(n)
        /\ Count("OnComputeGradientBeginIteration", n, AllFrames) > 0}

\* C16: a node that ComputeGradient processes on the whole-minibatch path
\* and that reports IsPartOfLoop() makes the call fail with
\* WholeBatchOnLoopNode, with or without multi-sequence handling, before
\* ComputeGradientForChildren is applied to it.
C16_WholeBatchOnLoopNodeFails ==
    lastCall.op = "ComputeGradient" =>
        \A n \in OnWholeBatchPath :
            node[n].isPartOfLoop =>
                /\ lastCall.err = "WholeBatchOnLoopNode"
                /\ Count("ComputeGradientForChildren", n, AllFrames) = 0

\* the failure is raised for the nodes that require multi-sequence handling
C16_HoldsForMultiSeqNodes ==
    lastCall.op = "ComputeGradient" =>
        \A n \in OnWholeBatchPath :
            (node[n].isPartOfLoop /\ IsNodeReqMultiSeqHandling(G, n)) =>
                /\ lastCall.err = "WholeBatchOnLoopNode"
                /\ Count("ComputeGradientForChildren", n, AllFrames) = 0

\* a call failed with WholeBatchOnLoopNode
C16_FailureReached ==
    /\ lastCall.op = "ComputeGradient"
    /\ lastCall.err = "WholeBatchOnLoopNode"

----------------------------------------------------------------------------
(* C17 *)

\* the members of loop r do not share one MBLayout: the first has none, or
\* another differs from the first
Mismatched(r) ==
    LET members == m_recurrentInfo[r].m_recurrentNodesForForward
    IN \/ ~pre.node[members[1]].layout
       \/ \E i \in 1..Len(members) :
             pre.node[members[i]].layout # pre.node[members[1]].layout

\* some event of one of the hooks hs is on a member of loop r
HookOnMember(hs, r) ==
    \E k \in 1..Len(trace) :
        /\ trace[k].h \in hs
        /\ trace[k].n \in Range(m_recurrentInfo[r].m_recurrentNodes)

\* the last call failed when it was about to run a loop
LoopRefused ==
    /\ lastCall.op \in {"Evaluate", "ComputeGradient"}
    /\ lastCall.err = "LoopLayoutMismatch"

\* C17: an Evaluate that fails with LoopLayoutMismatch has invoked none of
\* UpdateFunctionMBSize, OnEvaluateBeginIteration, Validate(true),
\* EvaluateThisNode on any member of the loop whose members do not share one
\* MBLayout, and leaves m_completedEvaluate of that loop false; an Evaluate
\* that returns has run no such loop.
C17_LayoutCheckedBeforeHooks ==
    \A r \in 1..Len(m_recurrentInfo) :
        /\ (LoopRefused /\ Mismatched(r)) =>
              /\ ~HookOnMember({"UpdateFunctionMBSize", "OnEvaluateBeginIteration",
                                "Validate(true)", "EvaluateThisNode"}, r)
              /\ ~m_recurrentInfo[r].m_completedEvaluate
        /\ (lastCall.op \in {"Evaluate", "ComputeGradient"} /\ Mismatched(r)) =>
              ~HookOnMember({"EvaluateThisNode"}, r)

\* what the interleaved test of the code keeps of C17: no Validate(true)
\* and no EvaluateThisNode on a member, and the flag stays false
C17_HoldsForSecondLoopAndFrames ==
    \A r \in 1..Len(m_recurrentInfo) :
        (lastCall.op \in {"Evaluate", "ComputeGradient"} /\ Mismatched(r)) =>
            /\ ~HookOnMember({"Validate(true)", "EvaluateThisNode"}, r)
            /\ ~m_recurrentInfo[r].m_completedEvaluate
            /\ lastCall.err \in {"NotBuilt", "LoopLayoutMismatch"}

----------------------------------------------------------------------------
(* C18 *)

\* nodes whose final validation is in the trace of the last call
FinallyValidated ==
    {trace[k].n : k \in {j \in 1..Len(trace) : trace[j].h = "Validate(true)"}}

\* n or a node reachable from n through Children() edges, the edges of the
\* delay nodes included, has IsParameterUpdateRequired()
UpdateRequiredBelow(n) ==
    G.update[n] \/ \E c \in Below(G, n) : G.update[c]

\* C18: after a validation that succeeded, first or forced again, every
\* node n of the validated subnetwork has m_needsGradient exactly when n or
\* some node reachable from n through Children() edges (delay edges
\* included) has IsParameterUpdateRequired().
C18_NeedsGradientUpwardClosure ==
    (/\ lastCall.op \in {"BuildAndValidateSubNetwork", "ValidateNetwork"}
     /\ Returned) =>
        \A n \in FinallyValidated :
            node[n].m_needsGradient = UpdateRequiredBelow(n)

\* a forced second validation of a network with a loop: the delay node 3
\* of FutureLoop has the flag only through its child, which is validated
\* after it
C18_Witness ==
    /\ net = 3
    /\ lastCall.op = "ValidateNetwork"
    /\ Returned
    /\ pre.call.op = "BuildAndValidateSubNetwork"
    /\ pre.call.err = ""
    /\ 3 \in FinallyValidated
    /\ IsDelay(G, 3)
    /\ ~G.update[3]
    /\ node[3].m_needsGradient
    /\ pre.node[3].m_needsGradient

----------------------------------------------------------------------------
(* C19 *)

\* a call of ValidateNodes() has returned
PassReturned ==
    /\ lastCall.op = "ValidateNodes"
    /\ Returned

PassOrder == GetEvalOrder(lastCall.root)

\* nodes on which the pass called Validate()
ValidatedInPass ==
    {trace[k].n : k \in {j \in 1..Len(trace) :
                            trace[j].h \in {"Validate(false)", "Validate(true)"}}}

\* child c was visited at the time the pass reached n
VisitedWhenReached(c, n) ==
    \/ pre.node[c].m_visited
    \/ c \in ValidatedInPass /\ IndexOf(PassOrder, c) < IndexOf(PassOrder, n)

AllChildrenVisitedWhenReached(n) ==
    \A c \in Range(Children(G, n)) : VisitedWhenReached(c, n)

\* the pass called Validate() on exactly the leaves and the nodes with a
\* visited child, once each, and marked them visited
ValidatesReachedNodes ==
    /\ \A n \in Range(PassOrder) :
          n \in ValidatedInPass <=>
              \/ IsLeaf(G, n)
              \/ \E c \in Range(Children(G, n)) : VisitedWhenReached(c, n)
    /\ \A n \in ValidatedInPass :
          /\ node[n].m_visited
          /\ Count("Validate(false)", n, AllFrames) + Count("Validate(true)", n, AllFrames) = 1
    /\ \A n \in Range(PassOrder) \ ValidatedInPass : node[n] = pre.node[n]

\* todo is the number of nodes of the pass for which Redo holds
TodoCounts(Redo(_)) ==
    LastTodo = Cardinality({n \in Range(PassOrder) : Redo(n)})

NotVisitedOrChildNotVisited(n) ==
    \/ ~node[n].m_visited
    \/ ~AllChildrenVisitedWhenReached(n)

\* Validate() changed what node n shows
ChangedInPass(n) == Tuple(node[n]) # Tuple(pre.node[n])

NotVisitedOrChildNotVisitedOrChanged(n) ==
    \/ ~node[n].m_visited
    \/ ~IsLeaf(G, n) /\ (~AllChildrenVisitedWhenReached(n) \/ ChangedInPass(n))

\* C19: ValidateNodes calls Validate on exactly the nodes that are leaves
\* or have a visited child when they are reached, marks those visited, and
\* returns in todo the number of nodes that are not visited or have a
\* child that was not visited.
C19_TodoCountsUnvisited ==
    PassReturned =>
        /\ ValidatesReachedNodes
        /\ TodoCounts(NotVisitedOrChildNotVisited)

\* C19 as the code has it: a node that is not a leaf is also counted when
\* Validate() changed its layout, its dimensions or its m_needsGradient
C19_TodoCountsUnvisitedOrChanged ==
    PassReturned =>
        /\ ValidatesReachedNodes
        /\ TodoCounts(NotVisitedOrChildNotVisitedOrChanged)

\* a pass that counts a node whose children were all visited: Validate()
\* changed it
C19_Witness ==
    /\ PassReturned
    /\ LastTodo > 0
    /\ \E n \in ValidatedInPass :
          /\ ~IsLeaf(G, n)
          /\ AllChildrenVisitedWhenReached(n)
          /\ ChangedInPass(n)
    /\ \E n \in Range(PassOrder) : ~node[n].m_visited

----------------------------------------------------------------------------
(* C20 *)

\* the inputs of n that are not behind a delay: the child of a PastValue
\* or FutureValue node is its delayed input
NonDelayInputs(n) ==
    IF IsDelay(G, n) THEN {} ELSE Range(Children(G, n))

\* every member of the loops of root is younger than its non-delay inputs
\* were before the call
MembersYoungerThanInputsWere(root) ==
    \A r \in LoopsIn(root) :
        \A n \in Range(m_recurrentInfo[r].m_recurrentNodes) :
            \A c \in NonDelayInputs(n) :
                node[n].m_evalTimeStamp > pre.node[c].m_evalTimeStamp

\* event k is the evaluation of a node, whole-minibatch or one frame, and
\* the timestamp it takes right after is not older than any child's
StampedAfterEvaluation(k) ==
    LET n == trace[k].n
    IN \E k2 \in (k + 1)..Len(trace) :
          /\ trace[k2] = Ev("UpdateEvalTimeStamp", n, AllFrames)
          /\ \A j \in (k + 1)..(k2 - 1) :
                trace[j].h \notin {"EvaluateThisNode", "UpdateEvalTimeStamp"}
          /\ \A c \in Range(Children(G, n)) :
                StampBefore(k2 + 1, n) >= StampBefore(k2 + 1, c)

\* the timestamps the trace accounts for are those of the nodes
StampsAreThoseOfTheTrace ==
    \A n \in Nodes : node[n].m_evalTimeStamp = StampBefore(Len(trace) + 1, n)

\* C20: after Evaluate(root) returns, every member of every loop of
\* root's subnetwork has a timestamp greater than the timestamps its
\* non-delay inputs had before the call; and right after any node is
\* evaluated, whole-minibatch or in one frame of a loop, its timestamp is
\* not less than that of any of its children.
C20_TimeStampsAfterEvaluate ==
    /\ (lastCall.op = "Evaluate" /\ Returned) =>
          /\ MembersYoungerThanInputsWere(lastCall.root)
          /\ StampsAreThoseOfTheTrace
    /\ lastCall.op \in {"Evaluate", "ComputeGradient"} =>
          \A k \in 1..Len(trace) :
              trace[k].h = "EvaluateThisNode" => StampedAfterEvaluation(k)

\* an Evaluate that ran a loop after a minibatch was read, and one that
\* found the loop up to date
C20_Witness ==
    /\ lastCall.op = "Evaluate"
    /\ Returned
    /\ LoopsIn(lastCall.root) # {}
    /\ pre.call.op = "ReadMinibatch"
    /\ pre.clock > 0
    /\ \E r \in LoopsIn(lastCall.root) :
          \E n \in Range(m_recurrentInfo[r].m_recurrentNodes) :
              /\ Count("EvaluateThisNode", n, 1) > 0
              /\ \E c \in NonDelayInputs(n) : pre.node[c].m_evalTimeStamp > 0

C20_WitnessUpToDate ==
    /\ lastCall.op = "Evaluate"
    /\ Returned
    /\ pre.call.op = "Evaluate"
    /\ \E r \in LoopsIn(lastCall.root) :
          \A n \in Range(m_recurrentInfo[r].m_recurrentNodes) :
              Hooks("EvaluateThisNode") = <<>> /\ node[n].m_evalTimeStamp > 0

----------------------------------------------------------------------------
(* C21 *)

\* the hooks of the forward pass
ForwardHooks ==
    {"UpdateFunctionMBSize", "Validate(true)", "OnEvaluateBeginIteration",
     "EvaluateThisNode", "MaskMissingValuesColumnsToZero",
     "OnEvaluateEndIteration", "UpdateEvalTimeStamp"}

\* the operations of ComputeGradient() after the forward pass
BackwardHooks ==
    {"ClearGradientForAllNodes", "SetRootGradientToOne", "SetRootGradientToInitValue",
     "BackwardPass", "OnComputeGradientBeginIteration", "VerifyNumParallelSequences",
     "MaskMissingGradientColumnsToZero", "ComputeGradientForChildren",
     "OnComputeGradientEndIteration", "ResetEvalTimeStamp"}

\* Evaluate(root) run in the state at the entry of the last call
ForwardOfLastCall == Evaluate(PreState, lastCall.root)

\* what ComputeGradient writes is as it was at the entry of the call
GradientStateUntouched ==
    /\ \A n \in Nodes :
          /\ node[n].gradient = pre.node[n].gradient
          /\ node[n].m_evalTimeStamp = pre.node[n].m_evalTimeStamp
    /\ \A r \in 1..Len(pre.rec) :
          m_recurrentInfo[r].m_completedGradient = pre.rec[r].m_completedGradient
    /\ \A k \in 1..Len(trace) : trace[k].h \notin BackwardHooks

\* C21: ComputeGradient runs the complete forward pass first: the trace of
\* the call begins with all operations of Evaluate(root), and the clearing
\* of the gradients, the seeding of the root gradient and every
\* ComputeGradientForChildren come after them.  If the root was not built
\* the call fails with NotBuilt and has cleared no gradient, seeded no root
\* gradient, changed no m_completedGradient and reset no timestamp.
C21_ForwardPassFirst ==
    lastCall.op = "ComputeGradient" =>
        /\ LET forward == ForwardOfLastCall.trace
           IN /\ Len(trace) >= Len(forward)
              /\ SubSeq(trace, 1, Len(forward)) = forward
              /\ \A k \in 1..Len(trace) :
                    IF k <= Len(forward) THEN trace[k].h \in ForwardHooks
                    ELSE trace[k].h \in BackwardHooks
        /\ \A k, j \in 1..Len(trace) :
              (trace[k].h \in ForwardHooks /\ trace[j].h \in BackwardHooks) => k < j
        /\ lastCall.root \notin pre.built =>
              /\ lastCall.err = "NotBuilt"
              /\ trace = <<>>
              /\ GradientStateUntouched

\* a ComputeGradient with clearGradients that evaluated nodes, cleared,
\* seeded and walked back
C21_Witness ==
    /\ lastCall.op = "ComputeGradient"
    /\ Returned
    /\ lastCall.args[3]
    /\ Hooks("EvaluateThisNode") # <<>>
    /\ Hooks("ClearGradientForAllNodes") # <<>>
    /\ Hooks("SetRootGradientToOne") # <<>>
    /\ Hooks("ComputeGradientForChildren") # <<>>
    /\ \E n \in Nodes : pre.node[n].gradient = "sum"

\* a ComputeGradient on a root that was not built, after gradients were
\* written
C21_WitnessNotBuilt ==
    /\ lastCall.op = "ComputeGradient"
    /\ lastCall.root \notin pre.built
    /\ lastCall.args[3]
    /\ lastCall.err = "NotBuilt"

----------------------------------------------------------------------------
(* C22 *)

LoopMembers(r) == Range(m_recurrentInfo[r].m_recurrentNodesForForward)

\* some member of loop r that is neither PastValue nor FutureValue reports
\* IsFuncValueOlderThanInputs() in the node states `nodes'
NonDelayMemberStale(nodes, r) ==
    \E n \in LoopMembers(r) :
        /\ G.op[n] \notin {"PastValue", "FutureValue"}
        /\ NodeIsOlderThanInputs(nodes, n)

\* event k is the first operation of a run of loop r
LoopCommencesAt(k, r) ==
    trace[k] = Ev("UpdateFunctionMBSize", m_recurrentInfo[r].m_recurrentNodesForForward[1],
                  AllFrames)

\* the last call evaluated members of loop r
LoopRan(r) == HookOnMember({"EvaluateThisNode"}, r)

\* event k is the traversal passing a member of loop r while the loop has
\* not been run in this call
LoopPassedAt(k, r) ==
    /\ trace[k].h = "OnEvaluateEndIteration"
    /\ trace[k].n \in LoopMembers(r)
    /\ \A j \in 1..(k - 1) :
          ~(trace[j].h = "EvaluateThisNode" /\ trace[j].n \in LoopMembers(r))

\* C22: IsFuncValueOlderThanInputs(nodes) is true exactly when a node of
\* the list that is neither PastValue nor FutureValue reports
\* IsFuncValueOlderThanInputs(); Evaluate runs a loop only when the check
\* is true, and a loop whose only stale members are delay nodes is passed
\* without being run, its members' timestamps unchanged.
C22_LoopStaleCheck ==
    \A r \in 1..Len(m_recurrentInfo) :
        /\ IsFuncValueOlderThanInputs(node, m_recurrentInfo[r].m_recurrentNodesForForward)
              <=> NonDelayMemberStale(node, r)
        /\ (lastCall.op \in {"Evaluate", "ComputeGradient"} /\ lastCall.root \in pre.built) =>
              \A k \in 1..Len(trace) :
                  /\ LoopCommencesAt(k, r) => NonDelayMemberStale(NodesBefore(k), r)
                  /\ LoopPassedAt(k, r) => ~NonDelayMemberStale(NodesBefore(k), r)
        /\ (lastCall.op = "Evaluate" /\ ~LoopRan(r)) =>
              \A n \in LoopMembers(r) :
                  node[n].m_evalTimeStamp = pre.node[n].m_evalTimeStamp

\* an Evaluate that passed a loop in which a delay node, and no other
\* member, was stale
C22_Witness ==
    /\ lastCall.op = "Evaluate"
    /\ Returned
    /\ \E r \in LoopsIn(lastCall.root) :
          /\ ~LoopRan(r)
          /\ \E k \in 1..Len(trace) : LoopPassedAt(k, r)
          /\ ~NonDelayMemberStale(pre.node, r)
          /\ \E d \in LoopMembers(r) :
                /\ IsDelay(G, d)
                /\ NodeIsOlderThanInputs(pre.node, d)
                /\ pre.node[d].m_evalTimeStamp > 0

----------------------------------------------------------------------------
(* C23 *)

\* the layout was empty at the entry of the last call
LayoutEmptyOnEntry == LayoutCols(pre.layout) = 0

\* every input node that root depends on is linked to the layout
InputsLinked(root) ==
    \A n \in Range(InputNodes(root)) : node[n].layout

\* C23: ValidateSubNetwork(root), as the build of a root runs it, links
\* every input node reachable from root to the MBLayout of the network; a
\* layout that is empty on entry is initialised to (T=1, S=cols of the
\* first input node) and to nothing else; a layout that is not empty keeps
\* its T and S.
C23_DummyLayoutFromFirstInput ==
    FreshBuild =>
        LET inputs == InputNodes(lastCall.root)
        IN /\ InputsLinked(lastCall.root)
           /\ (LayoutEmptyOnEntry /\ inputs # <<>>) =>
                 m_pMBLayout = [T |-> 1, S |-> pre.node[inputs[1]].cols]
           /\ ~LayoutEmptyOnEntry => m_pMBLayout = pre.layout

\* what holds of C23 when the first input node has columns
C23_HoldsWhenFirstInputHasColumns ==
    (FreshBuild /\ \A n \in Range(InputNodes(lastCall.root)) : pre.node[n].cols # 0)
        => C23_DummyLayoutFromFirstInput

\* a build that found the layout empty and one input without columns
C23_DummyLayoutReached ==
    /\ FreshBuild
    /\ LayoutEmptyOnEntry
    /\ Len(InputNodes(lastCall.root)) = 2
    /\ LayoutCols(m_pMBLayout) # 0

----------------------------------------------------------------------------
(* C24 *)

\* the roots ValidateNetwork() is to validate
DeclaredRoots == Range(G.criteria) \cup Range(G.outputs) \cup Range(G.evalNodes)

\* C24: ValidateNetwork never changes the build cache, whether it returns
\* or fails: BuiltAndValidatedSubNetwork(root) is for every root what it
\* was before the call.  A ValidateNetwork that returns has validated
\* every declared root again, in the cache or not; and Evaluate rejects
\* with NotBuilt a root that is not in the cache, validated or not.
C24_ValidateNetworkKeepsCache ==
    /\ lastCall.op = "ValidateNetwork" =>
          \A root \in Nodes :
              BuiltAndValidatedSubNetwork(m_built, root)
                  <=> BuiltAndValidatedSubNetwork(pre.built, root)
    /\ (lastCall.op = "ValidateNetwork" /\ Returned) =>
          \A root \in DeclaredRoots :
              /\ Count("ValidateSubNetwork", root, AllFrames) >= 1
              /\ Count("Validate(true)", root, AllFrames) >= 1
    /\ (lastCall.op = "Evaluate" /\ lastCall.root \notin pre.built) =>
          /\ lastCall.err = "NotBuilt"
          /\ trace = <<>>

\* an Evaluate rejected on a root that ValidateNetwork had just validated,
\* and a ValidateNetwork that validated a root of the cache again
C24_Witness ==
    /\ lastCall.op = "Evaluate"
    /\ lastCall.err = "NotBuilt"
    /\ lastCall.root \in validated
    /\ lastCall.root \in DeclaredRoots
    /\ pre.call.op = "ValidateNetwork"
    /\ pre.call.err = ""

C24_WitnessRevalidated ==
    /\ lastCall.op = "ValidateNetwork"
    /\ Returned
    /\ \E root \in DeclaredRoots \cap pre.built :
          Count("Validate(true)", root, AllFrames) >= 1

----------------------------------------------------------------------------
(* C25 *)

\* an Evaluate(root) that ran to its end
CompletedEvaluate ==
    /\ lastCall.op = "Evaluate"
    /\ lastCall.root \in pre.built
    /\ Returned

\* positions of the events of hook h on node n
PositionsOn(h, n) == {k \in 1..Len(trace) : trace[k].h = h /\ trace[k].n = n}

\* the OnEvaluateBeginIteration and OnEvaluateEndIteration events on n
IterationEvents(n) ==
    SelectSeq(trace, LAMBDA e : /\ e.n = n
                                /\ e.h \in {"OnEvaluateBeginIteration",
                                            "OnEvaluateEndIteration"})

\* Begin and End strictly alternate on n, from a Begin to an End
Alternate(n) ==
    LET events == IterationEvents(n)
    IN /\ Len(events) % 2 = 0
       /\ \A i \in 1..Len(events) :
             events[i].h = IF i % 2 = 1 THEN "OnEvaluateBeginIteration"
                           ELSE "OnEvaluateEndIteration"

\* every EvaluateThisNode on n lies between a Begin on n and the End that
\* follows it
EvaluatedInsideIteration(n) ==
    \A k \in PositionsOn("EvaluateThisNode", n) :
        \E kb \in PositionsOn("OnEvaluateBeginIteration", n) :
            /\ kb < k
            /\ \A j \in kb..k : j \notin PositionsOn("OnEvaluateEndIteration", n)
            /\ \E ke \in PositionsOn("OnEvaluateEndIteration", n) : k < ke

\* C25: in every completed Evaluate(root), on each node
\* OnEvaluateBeginIteration and OnEvaluateEndIteration strictly alternate,
\* from a Begin to an End; every EvaluateThisNode on a node lies between a
\* Begin and its End; and each member of a loop receives
\* OnEvaluateEndIteration once per run of its loop and never in a call in
\* which its loop did not run.
C25_HooksBalanced ==
    CompletedEvaluate =>
        /\ \A n \in Nodes : Alternate(n) /\ EvaluatedInsideIteration(n)
        /\ \A r \in 1..Len(m_recurrentInfo) : \A n \in LoopMembers(r) :
              Cardinality(PositionsOn("OnEvaluateEndIteration", n))
                  = IF LoopRan(r) THEN 1 ELSE 0

\* n received OnEvaluateEndIteration `lone' times without a Begin, besides
\* one End for each Begin
EndsAfterBegins(n, lone) ==
    LET begins == PositionsOn("OnEvaluateBeginIteration", n)
        ends   == PositionsOn("OnEvaluateEndIteration", n)
    IN /\ Cardinality(begins) <= 1
       /\ Cardinality(ends) = Cardinality(begins) + lone
       /\ \A kb \in begins : \E ke \in ends : kb < ke
       /\ PositionsOn("EvaluateThisNode", n) # {} <=> begins # {}

\* C25 with the End that the traversal gives to every node it does not
\* evaluate: a node outside the loops has a Begin, its EvaluateThisNode and
\* an End when it is evaluated, and a lone End when it is not; the members
\* of a loop that is run have a Begin, their frames and an End, and all of
\* them but the one at which the traversal ran the loop a lone End as well;
\* the members of a loop that is not run have a lone End each.
C25_HooksBalancedBesidesLoneEnd ==
    CompletedEvaluate =>
        /\ \A n \in Nodes : EvaluatedInsideIteration(n)
        /\ \A n \in Range(GetEvalOrder(lastCall.root)) :
              FindInRecurrentLoops(m_recurrentInfo, n) = 0 =>
                  EndsAfterBegins(n, IF PositionsOn("EvaluateThisNode", n) # {}
                                     THEN 0 ELSE 1)
        /\ \A r \in LoopsIn(lastCall.root) :
              LET inOrder == LoopMembers(r) \cap Range(GetEvalOrder(lastCall.root))
              IN IF LoopRan(r)
                 THEN /\ \A n \in LoopMembers(r) : \E lone \in {0, 1} : EndsAfterBegins(n, lone)
                      /\ Cardinality({n \in inOrder : EndsAfterBegins(n, 0)}) = 1
                 ELSE \A n \in inOrder : EndsAfterBegins(n, 1)

\* an Evaluate that ran a loop, passed a leaf and passed the members of
\* the loop it had run
C25_Witness ==
    /\ CompletedEvaluate
    /\ \E r \in LoopsIn(lastCall.root) :
          /\ LoopRan(r)
          /\ \E n \in LoopMembers(r) :
                Cardinality(PositionsOn("OnEvaluateEndIteration", n)) = 2
    /\ \E n \in Nodes :
          /\ IsLeaf(G, n)
          /\ IterationEvents(n) = <<Ev("OnEvaluateEndIteration", n, AllFrames)>>

====
